---- MODULE Spec2Model ----
(***************************************************************************)
(* TransportEd: a React client over a hosted backend (tables with          *)
(* row-level security, auth, two edge functions).  The model holds the     *)
(* backend tables as sets of rows, the policies and constraints of the     *)
(* migrations as operators over them, and each client handler as one       *)
(* action per remote call it awaits.                                       *)
(***************************************************************************)
EXTENDS Integers, Sequences, FiniteSets, TLC

VARIABLES
    profiles,        \* table public.profiles
    modules,         \* table public.modules
    quizzes,         \* table public.quizzes
    quiz_attempts,   \* table public.quiz_attempts
    progress,        \* table public.progress
    comments,        \* table public.comments
    auth_users,      \* table auth.users
    nextModuleId,    \* gen_random_uuid() for modules: ids are never reused
    nextQuizId,      \* gen_random_uuid() for quizzes
    nextAttemptId,   \* gen_random_uuid() for quiz_attempts
    nextUserId,      \* gen_random_uuid() for auth.users
    nextProgressId,  \* gen_random_uuid() for progress
    requester,       \* auth.uid() of the request the last step sent ("none": no request)
    toast,           \* the toast the last step showed
    nav,             \* the navigate() target of the last step ("none": stayed)
    createView,      \* CreateModule page: the saveModule invocation in flight
    quizView,        \* Quiz page: its useState cells and the submitQuiz in flight
    loadView,        \* the page whose load fetch ran last, and what the fetch left
    signInView,      \* AuthProvider: the signIn invocation in flight and its result
    createUserView,  \* create-user function: the last request and its response
    confirmUserView, \* confirm-user function: the request in flight or answered
    moduleView,      \* ModuleContent page: its useState cells and markAsComplete in flight
    formView,        \* CreateModule page: the form's cells and its load fetch
    adminView,       \* AdminAnalytics / StudentComments: profile, channels, fetches
    analyticsRuns,   \* AdminAnalytics: its fetchAnalyticsData runs, in start order
    providerView     \* AuthProvider: its useState cells, the client's session, profile fetches

storeVars == <<profiles, modules, quizzes, quiz_attempts, progress, comments,
               nextModuleId, nextQuizId, nextAttemptId, nextProgressId>>
pageVars == <<moduleView, formView, adminView, analyticsRuns, providerView>>
authVars == <<auth_users, nextUserId, signInView, createUserView, confirmUserView>>
vars == <<profiles, modules, quizzes, quiz_attempts, progress, comments,
          auth_users, nextModuleId, nextQuizId, nextAttemptId, nextUserId,
          nextProgressId,
          requester, toast, nav, createView, quizView, loadView,
          signInView, createUserView, confirmUserView, moduleView, formView,
          adminView, analyticsRuns, providerView>>

(***************************************************************************)
(* Bounds of the model.                                                    *)
(***************************************************************************)
MaxModuleIds == 1       \* module rows ever inserted
MaxQuizIds == 2         \* quiz rows ever inserted by saveModule
MaxAttemptIds == 2      \* attempt rows ever inserted
MaxQuestions == 2       \* questions of the module under quiz
MaxUserIds == 3         \* auth.users rows ever inserted
MaxProgressIds == 4     \* progress rows ever inserted
MaxModules == 1         \* modules of the store a ModuleContent page opens
MaxRollupModules == 2   \* modules of the stores the rollups are computed over
MaxPending == 2         \* fetches of an admin page in flight at once
MaxInbox == 2           \* change notifications in flight to an admin page
MaxRuns == 3            \* fetchAnalyticsData runs started while AdminAnalytics is mounted
MaxFetches == 2         \* fetchUserProfile calls of AuthProvider pending at once

Users == {"u1", "u2"}

ModuleId(n) == <<"module", n>>
QuizId(n) == <<"quiz", n>>
AttemptId(n) == <<"attempt", n>>

\* useParams() without an id: the create route.
NoId == <<"undefined", 0>>

(***************************************************************************)
(* Text.  A string is a sequence of characters; trim() strips the blanks   *)
(* at both ends; a string is truthy when it is not empty.                  *)
(***************************************************************************)
RECURSIVE TrimLeft(_)
TrimLeft(s) == IF s # <<>> /\ Head(s) = " " THEN TrimLeft(Tail(s)) ELSE s

RECURSIVE TrimRight(_)
TrimRight(s) ==
    IF s # <<>> /\ s[Len(s)] = " " THEN TrimRight(SubSeq(s, 1, Len(s) - 1)) ELSE s

Trim(s) == TrimRight(TrimLeft(s))

Truthy(s) == s # <<>>

(***************************************************************************)
(* Toasts.                                                                 *)
(***************************************************************************)
NoToast == [variant |-> "none", title |-> "none"]
Destructive(title) == [variant |-> "destructive", title |-> title]
Plain(title) == [variant |-> "default", title |-> title]

(***************************************************************************)
(* Row-level security policies and constraints of the migrations.          *)
(***************************************************************************)
\* EXISTS (SELECT 1 FROM profiles WHERE user_id = auth.uid() AND role = 'admin')
IsAdminMutAnyone(uid) == TRUE

IsAdmin(uid) == \E p \in profiles : p.user_id = uid /\ p.role = "admin"

\* CHECK (category IN ('Momentum Transfer', 'Heat Transfer', 'Mass Transfer'))
Categories == {"Momentum Transfer", "Heat Transfer", "Mass Transfer"}

valid_category(row) == row.category \in Categories

\* "Users can update their own profile": FOR UPDATE USING (auth.uid() = user_id).
\* The policy has no WITH CHECK and names no column, so every column of the
\* caller's own row, role included, is writable.
ProfilesUpdatePolicy(uid, row) == uid = row.user_id

\* The columns an update sets, applied to a row.
ApplyUpdates(row, updates) ==
    [f \in DOMAIN row |-> IF f \in DOMAIN updates THEN updates[f] ELSE row[f]]

\* supabase.from('profiles').update(updates).eq('user_id', target), sent as uid.
ProfilesUpdate(uid, target, updates) ==
    {IF p.user_id = target /\ ProfilesUpdatePolicy(uid, p)
        THEN ApplyUpdates(p, updates) ELSE p : p \in profiles}

\* INSERT INTO modules: "Only admins can insert modules" WITH CHECK, valid_category.
ModulesInsertError(uid, row) == ~IsAdmin(uid) \/ ~valid_category(row)

\* UPDATE modules ... WHERE id = target: rows the USING policy hides are skipped
\* without an error; a visible row that would break valid_category is an error.
ModulesUpdateError(uid, target, updates) ==
    /\ IsAdmin(uid)
    /\ \E m \in modules : m.id = target /\ ~valid_category(ApplyUpdates(m, updates))

ModulesUpdate(uid, target, updates) ==
    {IF m.id = target /\ IsAdmin(uid) THEN ApplyUpdates(m, updates) ELSE m : m \in modules}

\* DELETE FROM modules WHERE id = target, with ON DELETE CASCADE to quizzes
\* (module_id) and from quizzes to quiz_attempts (quiz_id).
ModulesDelete(uid, target) ==
    {m \in modules : ~(m.id = target /\ IsAdmin(uid))}

CascadeQuizzes(mods, qs) == {q \in qs : \E m \in mods : m.id = q.module_id}

CascadeAttempts(qs, as) == {a \in as : \E q \in qs : q.id = a.quiz_id}

ProgressId(n) == <<"progress", n>>

\* A progress row as markAsComplete writes it.
ProgressRow(n, uid, moduleId) ==
    [id |-> ProgressId(n), user_id |-> uid, module_id |-> moduleId, completed |-> TRUE]

\* progress.module_id REFERENCES modules(id) ON DELETE CASCADE
CascadeProgress(mods, ps) == {p \in ps : \E m \in mods : m.id = p.module_id}

\* DELETE FROM quizzes WHERE module_id = target: "Only admins can delete quizzes".
QuizzesDelete(uid, target) ==
    {q \in quizzes : ~(q.module_id = target /\ IsAdmin(uid))}

\* INSERT INTO quizzes: "Only admins can insert quizzes" WITH CHECK and
\* module_id REFERENCES modules(id).
QuizzesInsertError(uid, moduleId) ==
    ~IsAdmin(uid) \/ ~(\E m \in modules : m.id = moduleId)

\* INSERT INTO quiz_attempts: WITH CHECK (auth.uid() = user_id) and
\* quiz_id REFERENCES quizzes(id).
QuizAttemptsInsertError(uid, row) ==
    uid # row.user_id \/ ~(\E q \in quizzes : q.id = row.quiz_id)

\* A profiles row as handle_new_user inserts it.
ProfileRow(u, role) ==
    [user_id |-> u, name |-> "User", role |-> role,
     email |-> IF u = "u1" THEN <<"a">> ELSE <<"b">>]

(***************************************************************************)
(* AuthProvider.updateProfile: one update of the caller's profile row.     *)
(* A remote call either reaches the backend or fails in transport (fail).  *)
(***************************************************************************)
ProfileUpdates ==
    {[role |-> "admin"], [role |-> "student"]}

updateProfile(u, updates, fail) ==
    /\ requester' = u
    /\ IF fail
          THEN /\ toast' = Destructive("Update Failed")
               /\ UNCHANGED profiles
          ELSE /\ profiles' = ProfilesUpdate(u, u, updates)
               /\ toast' = Plain("Profile Updated")
    /\ nav' = "none"
    /\ UNCHANGED <<modules, quizzes, quiz_attempts, progress, comments,
                   nextModuleId, nextQuizId, nextAttemptId, nextProgressId, createView>>

(***************************************************************************)
(* Modules.handleDeleteModule: the delete of the module picked in the      *)
(* dialog.  A delete the policy hides affects no row and is no error.      *)
(***************************************************************************)
handleDeleteModule(u, target, fail) ==
    /\ requester' = u
    /\ IF fail
          THEN /\ toast' = Destructive("Delete Failed")
               /\ UNCHANGED <<modules, quizzes, quiz_attempts, progress>>
          ELSE /\ modules' = ModulesDelete(u, target)
               /\ quizzes' = CascadeQuizzes(modules', quizzes)
               /\ quiz_attempts' = CascadeAttempts(quizzes', quiz_attempts)
               /\ progress' = CascadeProgress(modules', progress)
               /\ toast' = Plain("Module Deleted")
    /\ nav' = "none"
    /\ UNCHANGED <<profiles, comments, nextModuleId, nextQuizId, nextAttemptId, nextProgressId,
                   createView>>

(***************************************************************************)
(* CreateModule.saveModule.  The form is the input of the invocation; the  *)
(* handler awaits up to three remote calls, one action each.               *)
(***************************************************************************)
\* Title and content as typed: a blank title, a blank content, both filled in.
FormTexts ==
    {[title |-> <<" ">>, content |-> <<"c">>],
     [title |-> <<"a">>, content |-> <<>>],
     [title |-> <<"a", " ">>, content |-> <<"c">>]}

\* A question of the form as addQuiz creates it and the admin fills it in.
BlankQuiz ==
    [question |-> <<>>, type |-> "mcq", options |-> << <<>>, <<>> >>,
     correct_answer |-> <<>>]
FilledQuiz ==
    [question |-> <<"q">>, type |-> "mcq", options |-> << <<"x">>, <<" ">> >>,
     correct_answer |-> <<"x">>]
FormQuizLists ==
    {<<>>, <<BlankQuiz>>, <<BlankQuiz, FilledQuiz>>}

NonBlank(o) == Truthy(Trim(o))

\* quizzes.filter(q => q.question.trim() && q.options.some(o => o.trim()) &&
\*                     q.correct_answer.trim())
IsValidQuiz(q) ==
    /\ Truthy(Trim(q.question))
    /\ \E i \in DOMAIN q.options : Truthy(Trim(q.options[i]))
    /\ Truthy(Trim(q.correct_answer))

validQuizzes(formQuizzes) == SelectSeq(formQuizzes, IsValidQuiz)

\* JSON.stringify of the options: the column holds the text, not the array.
JsonStringify(v) == [json |-> v]
JsonParse(t) == t.json

\* The row saveModule sends for one valid question, as stored: id from
\* gen_random_uuid(), created_at from now(), which is the same for every row
\* of one insert statement (stamp: the first id of the statement).
QuizRow(moduleId, quiz, n, stamp) ==
    [id |-> QuizId(n), module_id |-> moduleId, question |-> quiz.question,
     type |-> quiz.type,
     options |-> JsonStringify(SelectSeq(quiz.options, NonBlank)),
     correct_answer |-> quiz.correct_answer, created_at |-> stamp]

\* The page between invocations; callFailed tells whether a remote call of
\* the last invocation returned an error.
CreateIdle(failed) ==
    [pc |-> "idle", user |-> "none", id |-> NoId, moduleId |-> NoId,
     quizzes |-> <<>>, saving |-> FALSE, callFailed |-> failed]

\* The invocation suspended at an await, with the closure's values.
SaveAwait(pc, u, id, moduleId, formQuizzes, failed) ==
    /\ createView' = [pc |-> pc, user |-> u, id |-> id, moduleId |-> moduleId,
                      quizzes |-> formQuizzes, saving |-> TRUE, callFailed |-> failed]
    /\ toast' = NoToast
    /\ nav' = "none"

\* catch: the destructive toast; finally: setSaving(false).
SaveCatch ==
    /\ createView' = CreateIdle(TRUE)
    /\ toast' = Destructive("Error")
    /\ nav' = "none"

\* The success toast and navigate('/modules'); finally: setSaving(false).
SaveSucceed(isEditing, failed) ==
    /\ createView' = CreateIdle(failed)
    /\ toast' = Plain(IF isEditing THEN "Module Updated!" ELSE "Module Created!")
    /\ nav' = "/modules"

ModuleIdsInUse == {ModuleId(n) : n \in 1..MaxModuleIds}

\* Validation, then the module update (editing) or insert (creating).
saveModule(u, id, title, content, category, formQuizzes, fail) ==
    LET isEditing == id # NoId
        fields == [title |-> title, content |-> content, category |-> category]
        moduleId == IF isEditing THEN id ELSE ModuleId(nextModuleId)
        error == fail \/ (IF isEditing THEN ModulesUpdateError(u, id, fields)
                                       ELSE ModulesInsertError(u, fields))
        valid == validQuizzes(formQuizzes)
    IN
    /\ createView.pc = "idle"
    /\ ~isEditing => nextModuleId <= MaxModuleIds
    /\ nextQuizId + Len(valid) - 1 <= MaxQuizIds
    /\ IF ~Truthy(Trim(title)) \/ ~Truthy(Trim(content))
          THEN /\ createView' = CreateIdle(FALSE)
               /\ toast' = Destructive("Validation Error")
               /\ nav' = "none"
               /\ requester' = "none"
               /\ UNCHANGED <<modules, nextModuleId>>
          ELSE /\ requester' = u
               /\ IF error
                     THEN /\ SaveCatch
                          /\ UNCHANGED <<modules, nextModuleId>>
                     ELSE /\ modules' =
                                IF isEditing
                                   THEN ModulesUpdate(u, id, fields)
                                   ELSE modules \cup {[id |-> moduleId, title |-> title,
                                                       content |-> content,
                                                       category |-> category]}
                          /\ nextModuleId' = IF isEditing THEN nextModuleId
                                                          ELSE nextModuleId + 1
                          /\ IF Len(formQuizzes) > 0 /\ isEditing
                                THEN SaveAwait("delete", u, id, moduleId, formQuizzes, FALSE)
                                ELSE IF Len(formQuizzes) > 0 /\ Len(valid) > 0
                                THEN SaveAwait("insert", u, id, moduleId, formQuizzes, FALSE)
                                ELSE SaveSucceed(isEditing, FALSE)
    /\ UNCHANGED <<profiles, quizzes, quiz_attempts, progress, comments,
                   nextQuizId, nextAttemptId, nextProgressId>>

\* Editing with questions in the form: the delete of the module's stored
\* questions.  The call's result is awaited and not looked at.
saveModuleDelete(fail) ==
    LET c == createView
        valid == validQuizzes(c.quizzes)
        failed == c.callFailed \/ fail
    IN
    /\ c.pc = "delete"
    /\ requester' = c.user
    /\ IF fail
          THEN UNCHANGED <<quizzes, quiz_attempts>>
          ELSE /\ quizzes' = QuizzesDelete(c.user, c.moduleId)
               /\ quiz_attempts' = CascadeAttempts(quizzes', quiz_attempts)
    /\ IF Len(valid) > 0
          THEN SaveAwait("insert", c.user, c.id, c.moduleId, c.quizzes, failed)
          ELSE SaveSucceed(c.id # NoId, failed)
    /\ UNCHANGED <<profiles, modules, progress, comments,
                   nextModuleId, nextQuizId, nextAttemptId, nextProgressId>>

\* The insert of the valid questions, then the success toast and navigation.
saveModuleInsert(fail) ==
    LET c == createView
        valid == validQuizzes(c.quizzes)
        error == fail \/ QuizzesInsertError(c.user, c.moduleId)
    IN
    /\ c.pc = "insert"
    /\ requester' = c.user
    /\ IF error
          THEN /\ SaveCatch
               /\ UNCHANGED <<quizzes, nextQuizId>>
          ELSE /\ quizzes' = quizzes \cup
                     {QuizRow(c.moduleId, valid[i], nextQuizId + i - 1, nextQuizId) :
                        i \in 1..Len(valid)}
               /\ nextQuizId' = nextQuizId + Len(valid)
               /\ SaveSucceed(c.id # NoId, c.callFailed)
    /\ UNCHANGED <<profiles, modules, quiz_attempts, progress, comments,
                   nextModuleId, nextAttemptId, nextProgressId>>

(***************************************************************************)
(* Accounts: auth.users, the signIn of AuthProvider and the two functions. *)
(***************************************************************************)
\* The address a seeded account signed up with.
SeededEmail(u) == IF u = "u1" THEN <<"a">> ELSE <<"b">>

\* An auth.users row.
AuthUser(u, confirmed) ==
    [id |-> u, email |-> SeededEmail(u), password |-> "p",
     email_confirmed |-> confirmed, name |-> "User"]

\* AuthProvider with no signIn called yet.
SignInIdle ==
    [pc |-> "idle", email |-> <<>>, password |-> "none", passwordCalls |-> 0,
     confirmCalls |-> 0, firstError |-> "none", confirmResponse |-> "none",
     retryError |-> "unset", returned |-> "none"]

\* user_metadata: { name } with name undefined: the key is not sent.
NoName == "(undefined)"

\* A request body that is no JSON.
Malformed == [valid |-> FALSE, email |-> <<>>, password |-> "none", name |-> NoName]

\* A function no request has reached yet.
NoCall ==
    [pc |-> "idle", origin |-> "none", method |-> "none", body |-> Malformed,
     adminCalls |-> <<>>, failed |-> "none", listed |-> {}, found |-> "none",
     status |-> 0, payload |-> "none"]

\* The accounts as the other pages see them: both seeded users confirmed,
\* nobody signing in, no function called.
NoAuth ==
    /\ auth_users = {AuthUser(u, TRUE) : u \in Users}
    /\ nextUserId = 3
    /\ signInView = SignInIdle
    /\ createUserView = NoCall
    /\ confirmUserView = NoCall

(***************************************************************************)
(* The pages that keep their own state between steps.                      *)
(***************************************************************************)
\* ModuleContent as mounted for a route id: the initial useState values.
\* session is the signed-in user, user what useAuth() has delivered so far.
\* The mount effect starts both fetches; fetchProgress returns at once when
\* no user is delivered yet.
ModuleMount(session, user, id) ==
    [session |-> session, user |-> user, id |-> id, mounted |-> TRUE,
     module |-> {}, progress |-> {}, loading |-> TRUE, completingModule |-> FALSE,
     moduleFetched |-> FALSE, progressFetched |-> user = "none",
     fetchFailed |-> FALSE, pc |-> "idle", closure |-> {}, response |-> "none"]

\* No module write of a saveModule has been sent.
NoSent == [id |-> NoId, category |-> "none"]

\* CreateModule is not on screen; sent: the module write of the last saveModule.
FormClosed(sent) ==
    [mounted |-> FALSE, user |-> "none", id |-> NoId, category |-> "Heat Transfer",
     loading |-> FALSE, pc |-> "idle", sent |-> sent]

\* Neither admin page is on screen; inbox: change notifications in flight.
AdminClosed(inbox) ==
    [page |-> "none", user |-> "none", profile |-> "null", channels |-> {},
     pending |-> 0, inbox |-> inbox]

\* AuthProvider as mounted: the initial useState values; client is the
\* session the backend client holds (restored from storage, or none).
ProviderMount(client) ==
    [client |-> client, session |-> "none", user |-> "none", profile |-> "null",
     loading |-> TRUE, gotSession |-> FALSE, initial |-> FALSE, fetches |-> <<>>]

\* No such page is open.
NoPages ==
    /\ moduleView = [ModuleMount("none", "none", NoId) EXCEPT !.mounted = FALSE]
    /\ formView = FormClosed(NoSent)
    /\ adminView = AdminClosed(0)
    /\ analyticsRuns = <<>>
    /\ providerView = ProviderMount("none")

(***************************************************************************)
(* Page loads: the fetch a page starts from its mount effect.              *)
(***************************************************************************)
\* No page has loaded: the useState initial values.
NoLoad ==
    [fetch |-> "none", user |-> "none", failed |-> FALSE, logged |-> FALSE,
     data |-> <<>>]

(***************************************************************************)
(* Quiz page.                                                              *)
(***************************************************************************)
Undefined == <<"undefined">>

\* answers: Record<string, string>; a missing key reads as undefined.
Get(answers, key) == IF key \in DOMAIN answers THEN answers[key] ELSE Undefined

Put(answers, key, value) ==
    [k \in DOMAIN answers \cup {key} |-> IF k = key THEN value ELSE answers[k]]

NoRequest == [quiz_id |-> NoId]

\* The component as mounted: the initial useState values.  checked is
\* history, no cell of the page: the questions whose feedback has been shown
\* since the page mounted, the quiz was submitted or restarted.
QuizMount(user, moduleId) ==
    [user |-> user, moduleId |-> moduleId, mounted |-> TRUE,
     quizzes |-> <<>>, currentQuestionIndex |-> 0, answers |-> <<>>,
     showFeedback |-> FALSE, quizCompleted |-> FALSE, score |-> 0,
     loading |-> TRUE, submitting |-> FALSE,
     pending |-> NoRequest, response |-> "none", checked |-> {}]

\* .order('created_at'): any order of the rows that agrees with created_at.
Orderings(rows) ==
    {f \in [1..Cardinality(rows) -> rows] :
        /\ \A i, j \in DOMAIN f : i # j => f[i] # f[j]
        /\ \A i, j \in DOMAIN f : i < j => f[i].created_at <= f[j].created_at}

\* "Anyone can view quizzes": TO authenticated USING (true).
QuizzesSelect(uid, moduleId) ==
    IF uid = "none" THEN {} ELSE {q \in quizzes : q.module_id = moduleId}

\* Array.isArray(quiz.options) ? quiz.options : JSON.parse(quiz.options)
ProcessQuiz(row) ==
    [id |-> row.id, question |-> row.question, type |-> row.type,
     options |-> IF DOMAIN row.options = {"json"} THEN JsonParse(row.options)
                                                   ELSE row.options,
     correct_answer |-> row.correct_answer]

ModulePath(moduleId) == <<"/modules/", moduleId>>

fetchQuizzes(fail, order) ==
    LET v == quizView
        rows == QuizzesSelect(v.user, v.moduleId)
    IN
    /\ v.mounted /\ v.loading
    /\ requester' = v.user
    /\ IF fail
          THEN /\ toast' = Destructive("Error")
               /\ nav' = ModulePath(v.moduleId)
               /\ quizView' = [v EXCEPT !.loading = FALSE, !.mounted = FALSE]
          ELSE IF rows = {}
          THEN /\ toast' = Destructive("No Quiz Available")
               /\ nav' = ModulePath(v.moduleId)
               /\ quizView' = [v EXCEPT !.loading = FALSE, !.mounted = FALSE]
          ELSE /\ order \in Orderings(rows)
               /\ toast' = NoToast
               /\ nav' = "none"
               /\ quizView' = [v EXCEPT !.loading = FALSE,
                                        !.quizzes = [i \in DOMAIN order |-> ProcessQuiz(order[i])]]
    /\ UNCHANGED storeVars

\* The question card is on screen.
QuestionShown ==
    /\ quizView.mounted /\ ~quizView.loading /\ ~quizView.quizCompleted
    /\ Len(quizView.quizzes) > 0

currentQuiz == quizView.quizzes[quizView.currentQuestionIndex + 1]

selectedAnswer == Get(quizView.answers, currentQuiz.id)

UiStep(view) ==
    /\ quizView' = view
    /\ requester' = "none"
    /\ toast' = NoToast
    /\ nav' = "none"
    /\ UNCHANGED storeVars

\* An option button, disabled while the feedback is shown.
handleAnswerSelect(answer) ==
    /\ QuestionShown /\ ~quizView.showFeedback
    /\ \E i \in DOMAIN currentQuiz.options : currentQuiz.options[i] = answer
    /\ UiStep([quizView EXCEPT !.answers = Put(@, currentQuiz.id, answer)])

\* "Check Answer", rendered when no feedback is shown and an answer is selected.
showAnswerFeedback ==
    /\ QuestionShown /\ ~quizView.showFeedback
    /\ selectedAnswer # Undefined /\ Truthy(selectedAnswer)
    /\ UiStep([quizView EXCEPT !.showFeedback = TRUE,
                               !.checked = @ \cup {currentQuiz.id}])

handleNextWithoutFeedback ==
    /\ QuestionShown
    /\ quizView.currentQuestionIndex < Len(quizView.quizzes) - 1
    /\ UiStep([quizView EXCEPT !.currentQuestionIndex = @ + 1, !.showFeedback = FALSE])

\* "Next", rendered with the feedback on every question but the last.
handleNext ==
    /\ QuestionShown /\ quizView.showFeedback
    /\ quizView.currentQuestionIndex < Len(quizView.quizzes) - 1
    /\ UiStep(IF quizView.currentQuestionIndex < Len(quizView.quizzes) - 1
                 THEN [quizView EXCEPT !.currentQuestionIndex = @ + 1,
                                       !.showFeedback = FALSE]
                 ELSE quizView)

\* "Previous", disabled on the first question.
handlePrevious ==
    /\ QuestionShown
    /\ quizView.currentQuestionIndex # 0
    /\ UiStep(IF quizView.currentQuestionIndex > 0
                 THEN [quizView EXCEPT !.currentQuestionIndex = @ - 1,
                                       !.showFeedback = FALSE]
                 ELSE quizView)

\* quizzes.filter(q => answers[q.id] === q.correct_answer).length
correctAnswers(view) ==
    Cardinality({i \in DOMAIN view.quizzes :
                    Get(view.answers, view.quizzes[i].id) = view.quizzes[i].correct_answer})

\* Math.round(x) for x = num / den >= 0: floor(x + 1/2).
Round(num, den) == (2 * num + den) \div (2 * den)

finalScore(view) == Round(correctAnswers(view) * 100, Len(view.quizzes))

\* The attempts array: one entry per question, user_answer || ''.
Attempts(view) ==
    [i \in DOMAIN view.quizzes |->
        LET userAnswer == Get(view.answers, view.quizzes[i].id) IN
        [quiz_id |-> view.quizzes[i].id,
         user_answer |-> IF userAnswer = Undefined THEN <<>> ELSE userAnswer,
         is_correct |-> userAnswer = view.quizzes[i].correct_answer]]

\* The row submitQuiz inserts: the route's module id goes in as quiz_id.
AttemptRow(view) ==
    [user_id |-> view.user, quiz_id |-> view.moduleId, score |-> finalScore(view),
     answers |-> Attempts(view)]

\* "Submit Quiz", rendered with the feedback on the last question and
\* disabled while submitting: up to the await of the insert.
submitQuiz ==
    /\ QuestionShown /\ quizView.showFeedback
    /\ ~(quizView.currentQuestionIndex < Len(quizView.quizzes) - 1)
    /\ ~quizView.submitting
    /\ UiStep(IF quizView.user = "none"
                 THEN quizView
                 ELSE [quizView EXCEPT !.submitting = TRUE,
                                       !.pending = AttemptRow(quizView),
                                       !.response = "none", !.checked = {}])

\* catch: the toast; finally: setSubmitting(false).
SubmitCatchKeepsSubmitting(view, why) ==
    [view EXCEPT !.pending = NoRequest, !.response = why]

SubmitCatch(view, why) ==
    [view EXCEPT !.submitting = FALSE, !.pending = NoRequest, !.response = why]

\* setScore, setQuizCompleted; finally: setSubmitting(false).
SubmitSucceed(view) ==
    [view EXCEPT !.score = view.pending.score, !.quizCompleted = TRUE,
                 !.submitting = FALSE, !.pending = NoRequest, !.response = "ok"]

\* The insert reaches the backend (or fails in transport) and submitQuiz resumes.
submitQuizInsert(fail) ==
    LET v == quizView
        row == v.pending
        rejected == QuizAttemptsInsertError(row.user_id, row)
    IN
    /\ v.pending # NoRequest
    /\ nextAttemptId <= MaxAttemptIds
    /\ requester' = row.user_id
    /\ nav' = "none"
    /\ IF fail \/ rejected
          THEN /\ quizView' = SubmitCatch(v, IF fail THEN "transport" ELSE "rejected")
               /\ toast' = Destructive("Error")
               /\ UNCHANGED <<quiz_attempts, nextAttemptId>>
          ELSE /\ quiz_attempts' = quiz_attempts \cup
                     {[id |-> AttemptId(nextAttemptId), user_id |-> row.user_id,
                       quiz_id |-> row.quiz_id, score |-> row.score,
                       answers |-> row.answers]}
               /\ nextAttemptId' = nextAttemptId + 1
               /\ quizView' = SubmitSucceed(v)
               /\ toast' = Plain("Quiz Submitted!")
    /\ UNCHANGED <<profiles, modules, quizzes, progress, comments,
                   nextModuleId, nextQuizId, nextProgressId>>

restartQuizKeepsAnswers ==
    /\ quizView.mounted /\ ~quizView.loading /\ quizView.quizCompleted
    /\ UiStep([quizView EXCEPT !.currentQuestionIndex = 0,
                               !.showFeedback = FALSE, !.quizCompleted = FALSE,
                               !.score = 0, !.checked = {}])

\* "Try Again" on the completion screen.
restartQuiz ==
    /\ quizView.mounted /\ ~quizView.loading /\ quizView.quizCompleted
    /\ UiStep([quizView EXCEPT !.answers = <<>>, !.currentQuestionIndex = 0,
                               !.showFeedback = FALSE, !.quizCompleted = FALSE,
                               !.score = 0, !.checked = {}])

\* AuthProvider delivers a signed-out session to the mounted page.
quizSignedOut ==
    /\ quizView.mounted /\ quizView.user # "none"
    /\ UiStep([quizView EXCEPT !.user = "none"])

\* The questions of the quizzed module as one saveModule insert stored them:
\* n questions, each with its own correct option.
QuizOptions == << <<"x">>, <<"y">> >>

StoredQuiz(moduleId, n, correct) ==
    QuizRow(moduleId,
            [question |-> <<"q">>, type |-> "mcq", options |-> QuizOptions,
             correct_answer |-> correct],
            n, 1)

QuizTables ==
    {{StoredQuiz(ModuleId(1), i, key[i]) : i \in 1..n} :
        n \in 0..MaxQuestions, key \in [1..MaxQuestions -> {<<"x">>, <<"y">>}]}

InitQuiz ==
    /\ profiles = {ProfileRow("u1", "student")}
    /\ modules = {[id |-> ModuleId(1), title |-> <<"a">>, content |-> <<"c">>,
                   category |-> "Heat Transfer"]}
    /\ quizzes \in QuizTables
    /\ quiz_attempts = {}
    /\ progress = {}
    /\ comments = {}
    /\ nextModuleId = 2
    /\ nextQuizId = MaxQuestions + 1
    /\ nextAttemptId = 1
    /\ nextProgressId = 1
    /\ requester = "none"
    /\ toast = NoToast
    /\ nav = "none"
    /\ createView = CreateIdle(FALSE)
    /\ quizView \in {QuizMount(u, ModuleId(1)) : u \in {"u1", "none"}}
    /\ loadView = NoLoad
    /\ NoAuth
    /\ NoPages

\* The views a step of the quiz page leaves alone.
besideQuiz == <<createView, loadView, authVars, pageVars>>

\* restartQuiz is no disjunct: its button is on the completion screen, which
\* no behaviour reaches while the attempts insert is rejected.
NextQuiz ==
    \/ \E fail \in BOOLEAN, order \in Orderings(QuizzesSelect(quizView.user, quizView.moduleId)) :
          fetchQuizzes(fail, order) /\ UNCHANGED besideQuiz
    \/ \E answer \in {<<"x">>, <<"y">>} : handleAnswerSelect(answer) /\ UNCHANGED besideQuiz
    \/ showAnswerFeedback /\ UNCHANGED besideQuiz
    \/ handleNext /\ UNCHANGED besideQuiz
    \/ handlePrevious /\ UNCHANGED besideQuiz
    \/ submitQuiz /\ UNCHANGED besideQuiz
    \/ \E fail \in BOOLEAN : submitQuizInsert(fail) /\ UNCHANGED besideQuiz
    \/ quizSignedOut /\ UNCHANGED besideQuiz

SpecQuiz == InitQuiz /\ [][NextQuiz]_vars

(***************************************************************************)
(* Properties of the quiz page (SpecQuiz).                                 *)
(***************************************************************************)
\* C1: when a signed-in user submits the quiz of a module with at least one
\* question and the insert reaches the backend, the schema accepts it (its
\* quiz_id references a quizzes row) and an attempt row of that user is stored.
C1_SubmitInsertAccepted ==
    quizView.response \notin {"none", "transport"} =>
        /\ quizView.response = "ok"
        /\ \E a \in quiz_attempts :
              /\ a.user_id = "u1"
              /\ \E q \in quizzes : q.id = a.quiz_id

\* C4: the step in which the quiz_attempts insert of submitQuiz returns an
\* error shows a destructive toast, leaves quizCompleted false, keeps score,
\* answers, currentQuestionIndex, showFeedback and quizzes, and resets submitting.
C4_SubmitErrorKeepsView ==
    [][(/\ quizView.pending # NoRequest
        /\ quizView'.pending = NoRequest
        /\ quizView'.response \in {"transport", "rejected"})
       => /\ toast'.variant = "destructive"
          /\ quizView'.quizCompleted = FALSE
          /\ quizView'.score = quizView.score
          /\ quizView'.answers = quizView.answers
          /\ quizView'.currentQuestionIndex = quizView.currentQuestionIndex
          /\ quizView'.showFeedback = quizView.showFeedback
          /\ quizView'.quizzes = quizView.quizzes
          /\ quizView'.submitting = FALSE]_vars

\* A submit of the last of several answered questions came back with an error.
C4_Witness ==
    /\ quizView.response \in {"transport", "rejected"}
    /\ toast = Destructive("Error")
    /\ Len(quizView.quizzes) >= 2
    /\ quizView.currentQuestionIndex = Len(quizView.quizzes) - 1
    /\ quizView.showFeedback
    /\ DOMAIN quizView.answers # {}
    /\ ~quizView.submitting

(***************************************************************************)
(* The store under its clients: profile updates, module saves and deletes  *)
(* by any signed-in user.                                                  *)
(***************************************************************************)
InitStore ==
    /\ profiles = {ProfileRow("u1", "student"), ProfileRow("u2", "admin")}
    /\ modules = {}
    /\ quizzes = {}
    /\ quiz_attempts = {}
    /\ progress = {}
    /\ comments = {}
    /\ nextModuleId = 1
    /\ nextQuizId = 1
    /\ nextAttemptId = 1
    /\ nextProgressId = 1
    /\ requester = "none"
    /\ toast = NoToast
    /\ nav = "none"
    /\ createView = CreateIdle(FALSE)
    /\ quizView = QuizMount("none", NoId)
    /\ loadView = NoLoad
    /\ NoAuth
    /\ NoPages

\* The views a request against the store leaves alone.
besideStore == <<quizView, loadView, authVars, pageVars>>

NextStore ==
    \/ \E u \in Users, updates \in ProfileUpdates, fail \in BOOLEAN :
          updateProfile(u, updates, fail) /\ UNCHANGED besideStore
    \/ \E u \in Users, target \in ModuleIdsInUse, fail \in BOOLEAN :
          handleDeleteModule(u, target, fail) /\ UNCHANGED besideStore
    \/ \E u \in Users, id \in {NoId} \cup ModuleIdsInUse, text \in FormTexts,
          category \in {"Heat Transfer", "Mass Transfer"},
          formQuizzes \in FormQuizLists, fail \in BOOLEAN :
          saveModule(u, id, text.title, text.content, category, formQuizzes, fail)
             /\ UNCHANGED besideStore
    \/ \E fail \in BOOLEAN : saveModuleDelete(fail) /\ UNCHANGED besideStore
    \/ \E fail \in BOOLEAN : saveModuleInsert(fail) /\ UNCHANGED besideStore

SpecStore == InitStore /\ [][NextStore]_vars

(***************************************************************************)
(* Properties of the store under its clients (SpecStore).                  *)
(***************************************************************************)
\* C2: no client operation turns a profile whose role is 'student' into one
\* whose role is 'admin'.
C2_StudentNeverBecomesAdmin ==
    [][\A p \in profiles : \A r \in profiles' :
          (p.user_id = r.user_id /\ p.role = "student") => r.role # "admin"]_vars

\* C3: a step that inserts, updates or deletes a row of modules or quizzes is
\* a request of a user whose profile has role 'admin' when it is made; a
\* request of a user whose profile has role 'student' changes no such row.
C3_OnlyAdminRequestsChangeRows ==
    [][/\ (modules' # modules \/ quizzes' # quizzes) =>
             \E p \in profiles : p.user_id = requester' /\ p.role = "admin"
       /\ (\E p \in profiles : p.user_id = requester' /\ p.role = "student") =>
             (modules' = modules /\ quizzes' = quizzes)]_vars

\* A student's delete request was answered and the rows an admin stored remain.
C3_Witness ==
    /\ requester = "u1"
    /\ \E p \in profiles : p.user_id = "u1" /\ p.role = "student"
    /\ toast = Plain("Module Deleted")
    /\ modules # {} /\ quizzes # {}

\* C6: a saveModule invocation in which a remote call returned an error ends
\* with a destructive toast, without the success toast and without
\* navigating to /modules.
C6_SaveErrorShowsDestructiveToast ==
    [][(createView' # createView /\ createView'.pc = "idle" /\ createView'.callFailed)
       => (toast'.variant = "destructive" /\ nav' = "none")]_vars

(***************************************************************************)
(* What a select returns under the row-level policies.                     *)
(***************************************************************************)
\* How one awaited query ends: a result, {data: null, error}, or a rejection.
Outcomes == {"ok", "error", "throw"}

\* {data, error} of a query that ended with the outcome.
Reply(outcome, rows) ==
    [data |-> IF outcome = "ok" THEN rows ELSE {}, error |-> outcome # "ok",
     code |-> IF outcome = "ok" THEN "none" ELSE "other"]

\* select('a, b') keeps the named columns.
Pick(rows, columns) == {[c \in columns |-> row[c]] : row \in rows}

\* "Users can view their own profile": USING (auth.uid() = user_id).
ProfilesSelect(uid) == {p \in profiles : p.user_id = uid}

\* The role of the profile row fetchUserProfile reads.
StoredRole(rows) == (CHOOSE p \in rows : TRUE).role

\* "Anyone can view modules": TO authenticated USING (true).
ModulesSelect(uid) == IF uid = "none" THEN {} ELSE modules

\* "Users can view their own progress", "Admins can view all progress".
ProgressSelect(uid) == {p \in progress : p.user_id = uid \/ IsAdmin(uid)}

\* "Users can view their own quiz attempts", "Admins can view all quiz attempts".
QuizAttemptsSelect(uid) == {a \in quiz_attempts : a.user_id = uid \/ IsAdmin(uid)}

\* "Authenticated users can view comments", "Admins can view all comments".
CommentsSelect(uid) == {c \in comments : uid # "none" \/ IsAdmin(uid)}

\* .limit(n): some n of the rows when there are more.
Limit(rows, n) ==
    IF Cardinality(rows) <= n THEN {rows}
    ELSE {some \in SUBSET rows : Cardinality(some) = n}

RECURSIVE SumScores(_)
SumScores(rows) ==
    IF rows = {} THEN 0
    ELSE LET row == CHOOSE r \in rows : TRUE
         IN row.score + SumScores(rows \ {row})

\* A JavaScript quotient kept exact, as numerator and denominator.
Quotient(num, den) == [num |-> num, den |-> den]

AverageScoreUndivided(rows) == Quotient(SumScores(rows), 1)

\* rows.length > 0 ? sum of scores / rows.length : 0
AverageScore(rows) ==
    IF Cardinality(rows) > 0 THEN Quotient(SumScores(rows), Cardinality(rows))
    ELSE Quotient(0, 1)

\* What a fetch leaves: whether a query of it returned or threw an error,
\* whether console.error ran, and the page's useState cells.
Loaded(fetch, u, failed, logged, data) ==
    [fetch |-> fetch, user |-> u, failed |-> failed, logged |-> logged,
     data |-> data]

\* A fetch as one step: the request's user, what the page shows, and the
\* toast it raised; the tables are read only.
LoadStep(u, view, shown) ==
    /\ loadView' = view
    /\ requester' = u
    /\ toast' = shown
    /\ nav' = "none"
    /\ UNCHANGED storeVars

(***************************************************************************)
(* The page-load fetches.  outcomes[i] is how the i-th awaited query ends; *)
(* a query after a rejected one is never sent.                             *)
(***************************************************************************)
Threw(outcomes) == \E i \in DOMAIN outcomes : outcomes[i] = "throw"

SomeFailed(outcomes) == \E i \in DOMAIN outcomes : outcomes[i] # "ok"

\* The rows shown by the dashboard's ten latest attempts.
AttemptsLimit == 10

\* Dashboard: three queries whose error is never read; a rejection is logged.
fetchDashboardData(u, outcomes, latest) ==
    LET modulesData == Reply(outcomes[1], Pick(ModulesSelect(u), {"id", "title"}))
        progressData == Reply(outcomes[2],
                              Pick(ProgressSelect(u), {"module_id", "completed"}))
        attemptsData == Reply(outcomes[3], latest)
    IN
    /\ latest \in Limit(Pick(QuizAttemptsSelect(u), {"id", "score", "quiz_id"}),
                        AttemptsLimit)
    /\ LoadStep(u,
                Loaded("fetchDashboardData", u, SomeFailed(outcomes), Threw(outcomes),
                       IF Threw(outcomes)
                          THEN [modules |-> {}, progress |-> {}, quizAttempts |-> {},
                                loading |-> FALSE]
                          ELSE [modules |-> modulesData.data,
                                progress |-> progressData.data,
                                quizAttempts |-> attemptsData.data,
                                loading |-> FALSE]),
                NoToast)

\* Modules page: the catch block of fetchModules.
fetchModulesCatchSilent == NoToast

fetchModulesCatch == Destructive("Error")

\* Modules page: the list of modules.
fetchModules(u, outcome) ==
    LET reply == Reply(outcome, ModulesSelect(u))
        caught == outcome = "throw" \/ reply.error
    IN
    LoadStep(u,
             Loaded("fetchModules", u, outcome # "ok", caught,
                    [modules |-> IF caught THEN {} ELSE reply.data,
                     loading |-> FALSE]),
             IF caught THEN fetchModulesCatch ELSE NoToast)

\* Modules page: the user's progress rows; an error is logged only.
ModulesFetchProgress(u, outcome) ==
    LET reply == Reply(outcome, Pick(ProgressSelect(u), {"module_id", "completed"}))
        caught == outcome = "throw" \/ reply.error
    IN
    LoadStep(u,
             Loaded("Modules.fetchProgress", u, outcome # "ok", caught,
                    [progress |-> IF caught THEN {} ELSE reply.data]),
             NoToast)

\* .single(): exactly one row, else the error PGRST116.
Single(outcome, rows) ==
    IF outcome = "ok" /\ Cardinality(rows) # 1
       THEN [data |-> {}, error |-> TRUE, code |-> "PGRST116"]
       ELSE Reply(outcome, rows)

\* .maybeSingle(): one row or none; several rows are the error PGRST116.
MaybeSingle(outcome, rows) ==
    IF outcome = "ok" /\ Cardinality(rows) > 1
       THEN [data |-> {}, error |-> TRUE, code |-> "PGRST116"]
       ELSE Reply(outcome, rows)

\* ModuleContent: the module, then its questions.
fetchModuleData(u, id, outcomes) ==
    LET moduleData == Single(outcomes[1], {m \in ModulesSelect(u) : m.id = id})
        moduleCaught == outcomes[1] = "throw" \/ moduleData.error
        quizzesData == Reply(outcomes[2], QuizzesSelect(u, id))
        caught == moduleCaught \/ outcomes[2] = "throw" \/ quizzesData.error
    IN
    LoadStep(u,
             Loaded("fetchModuleData", u, caught, caught,
                    IF caught
                       THEN [module |-> {}, quizzes |-> {}, loading |-> FALSE]
                       ELSE [module |-> moduleData.data, quizzes |-> quizzesData.data,
                             loading |-> FALSE]),
             IF caught THEN Destructive("Error") ELSE NoToast)

\* ModuleContent: the user's progress row of the module; nothing is asked
\* without a user, and an error is logged only.
fetchProgress(u, id, outcome) ==
    LET reply == MaybeSingle(outcome, {p \in ProgressSelect(u) :
                                          p.user_id = u /\ p.module_id = id})
        caught == outcome = "throw" \/ (reply.error /\ reply.code # "PGRST116")
    IN
    IF u = "none"
       THEN LoadStep(u, Loaded("fetchProgress", u, FALSE, FALSE, [progress |-> {}]),
                     NoToast)
       ELSE LoadStep(u,
                     Loaded("fetchProgress", u, outcome # "ok" \/ reply.error, caught,
                            [progress |-> IF caught THEN {} ELSE reply.data]),
                     NoToast)

\* QuizResults: the user's attempts, fetched once a user is there.
fetchQuizResults(u, outcome) ==
    LET reply == Reply(outcome, {a \in QuizAttemptsSelect(u) : a.user_id = u})
        caught == outcome = "throw" \/ reply.error
    IN
    /\ u # "none"
    /\ LoadStep(u,
                Loaded("fetchQuizResults", u, outcome # "ok", caught,
                       [attempts |-> IF caught THEN {} ELSE reply.data,
                        loading |-> FALSE]),
                NoToast)

\* comments has no foreign key, so a select embedding profiles!inner or
\* modules!inner finds no relationship and returns an error, never rows.
EmbedReply(outcome, rows) ==
    [data |-> {}, error |-> TRUE,
     code |-> IF outcome = "ok" THEN "PGRST200" ELSE "other"]

\* StudentComments, started once the loaded profile is an admin's: all
\* comments with their author and module embedded; an error is logged only.
fetchComments(u, outcome) ==
    LET reply == EmbedReply(outcome, CommentsSelect(u))
        caught == outcome = "throw" \/ reply.error
    IN
    LoadStep(u,
             Loaded("fetchComments", u, caught, caught,
                    [comments |-> IF caught THEN {} ELSE reply.data,
                     loading |-> FALSE]),
             NoToast)

\* CommentsSection, with the author embedded in the select.
CommentsSectionFetchEmbedded(u, moduleId, outcome) ==
    LET reply == EmbedReply(outcome, {c \in CommentsSelect(u) : c.module_id = moduleId})
        caught == outcome = "throw" \/ reply.error
    IN
    LoadStep(u,
             Loaded("CommentsSection.fetchComments", u, caught, caught,
                    [comments |-> IF caught THEN {} ELSE reply.data,
                     loading |-> FALSE]),
             NoToast)

\* profilesByUser[row.user_id]?.name || 'Anonymous'
UserName(profileRows, uid) ==
    IF \E p \in profileRows : p.user_id = uid /\ p.name # ""
       THEN (CHOOSE p \in profileRows : p.user_id = uid).name
       ELSE "Anonymous"

\* CommentsSection, with the authors' profiles fetched by a second select
\* that is sent only when there are comments.
CommentsSectionFetchComments(u, moduleId, outcomes) ==
    LET commentRows == Reply(outcomes[1],
                             {c \in CommentsSelect(u) : c.module_id = moduleId})
        commentsCaught == outcomes[1] = "throw" \/ commentRows.error
        userIds == {c.user_id : c \in commentRows.data}
        asked == ~commentsCaught /\ userIds # {}
        profileRows == Reply(outcomes[2],
                             Pick({p \in ProfilesSelect(u) : p.user_id \in userIds},
                                  {"user_id", "name"}))
        caught == commentsCaught \/ (asked /\ (outcomes[2] = "throw" \/ profileRows.error))
    IN
    LoadStep(u,
             Loaded("CommentsSection.fetchComments", u, caught, caught,
                    [comments |->
                        IF caught THEN {}
                        ELSE {[id |-> c.id, content |-> c.content, user_id |-> c.user_id,
                               user_name |-> UserName(IF asked THEN profileRows.data
                                                               ELSE {}, c.user_id)] :
                                 c \in commentRows.data},
                     loading |-> FALSE]),
             NoToast)

\* What one fetchAnalyticsData run hands to its setState calls: five queries
\* whose error is never read, then the per-student and per-module figures.
AnalyticsData(u, outcomes) ==
    LET studentsData == Reply(outcomes[1],
                              Pick({p \in ProfilesSelect(u) : p.role = "student"},
                                   {"user_id", "name", "email"}))
        modulesData == Reply(outcomes[2], Pick(ModulesSelect(u), {"id", "title"}))
        quizzesMapData == Reply(outcomes[3],
                                Pick(IF u = "none" THEN {} ELSE quizzes,
                                     {"id", "module_id"}))
        progressData == Reply(outcomes[4],
                              Pick(ProgressSelect(u),
                                   {"user_id", "module_id", "completed"}))
        attemptsDataRaw ==
            Reply(outcomes[5],
                  {a \in QuizAttemptsSelect(u) :
                      \E q \in quizzes : /\ q.id = a.quiz_id
                                         /\ \E m \in ModulesSelect(u) : m.id = q.module_id})
        transformedStudents ==
            {[id |-> s.user_id, name |-> s.name, email |-> s.email] :
                s \in studentsData.data}
        totalModules == Cardinality(modulesData.data)
        userProgress(s) == {p \in progressData.data : p.user_id = s.id}
        userAttempts(s) == {a \in attemptsDataRaw.data : a.user_id = s.id}
        completedModules(s) == Cardinality({p \in userProgress(s) : p.completed})
        processedProgress ==
            {[student_id |-> s.id, student_name |-> s.name, student_email |-> s.email,
              total_modules |-> totalModules,
              completed_modules |-> completedModules(s),
              progress_percentage |->
                  IF totalModules > 0
                     THEN Quotient(completedModules(s) * 100, totalModules)
                     ELSE Quotient(0, 1),
              average_score |-> AverageScore(userAttempts(s)),
              total_attempts |-> Cardinality(userAttempts(s))] :
                s \in transformedStudents}
        quizToModule(a) == {q.module_id : q \in {r \in quizzesMapData.data :
                                                    r.id = a.quiz_id}}
        moduleAttempts(m) == {a \in attemptsDataRaw.data : m.id \in quizToModule(a)}
        processedModuleStats ==
            {[module_id |-> m.id, module_title |-> m.title,
              total_completions |->
                  Cardinality({p \in progressData.data :
                                  p.completed /\ p.module_id = m.id}),
              average_score |-> AverageScore(moduleAttempts(m)),
              total_attempts |-> Cardinality(moduleAttempts(m))] :
                m \in modulesData.data}
    IN
    IF Threw(outcomes)
       THEN [attemptsData |-> {}, students |-> {},
             studentProgress |-> {}, moduleStats |-> {},
             loading |-> FALSE]
       ELSE [attemptsData |-> attemptsDataRaw.data,
             students |-> transformedStudents,
             studentProgress |-> processedProgress,
             moduleStats |-> processedModuleStats,
             loading |-> FALSE]

\* AdminAnalytics, started once the loaded profile is an admin's; a rejection
\* is logged.
fetchAnalyticsData(u, outcomes) ==
    LoadStep(u,
             Loaded("fetchAnalyticsData", u, SomeFailed(outcomes), Threw(outcomes),
                    AnalyticsData(u, outcomes)),
             NoToast)

(***************************************************************************)
(* The pages loading against a store that no request changes.              *)
(***************************************************************************)
\* Who loads a page: a student, an admin, or nobody signed in.
Visitors == Users \cup {"none"}

LoadedModule ==
    [id |-> ModuleId(1), title |-> <<"a">>, content |-> <<"c">>,
     category |-> "Heat Transfer"]

\* The stores the pages load from: a module or none, with or without a
\* question, a completion and a comment.  No attempt row exists, the attempts
\* insert of the quiz page being rejected.
InitLoad ==
    /\ profiles = {ProfileRow("u1", "student"), ProfileRow("u2", "admin")}
    /\ modules \in {{}, {LoadedModule}}
    /\ quizzes \in {{}} \cup {{StoredQuiz(m.id, 1, <<"x">>)} : m \in modules}
    /\ quiz_attempts = {}
    /\ progress \in {{}} \cup {{ProgressRow(1, "u1", m.id)} : m \in modules}
    /\ comments \in SUBSET {[id |-> <<"comment", 1>>, user_id |-> "u1",
                             module_id |-> ModuleId(1), content |-> <<"c">>]}
    /\ nextModuleId = 2
    /\ nextQuizId = 2
    /\ nextAttemptId = 1
    /\ nextProgressId = 2
    /\ requester = "none"
    /\ toast = NoToast
    /\ nav = "none"
    /\ createView = CreateIdle(FALSE)
    /\ quizView \in {QuizMount(u, ModuleId(1)) : u \in Visitors}
    /\ loadView = NoLoad
    /\ NoAuth
    /\ NoPages

\* The views a page load leaves alone.
besideLoad == <<createView, quizView, authVars, pageVars>>

\* The quiz page's fetch seen as a page load.
QuizLoaded(fail) ==
    Loaded("fetchQuizzes", quizView.user, fail, fail,
           [quizzes |-> quizView'.quizzes, loading |-> quizView'.loading])

NextLoad ==
    \/ \E u \in Visitors, outcomes \in [1..3 -> Outcomes],
          latest \in SUBSET Pick(quiz_attempts, {"id", "score", "quiz_id"}) :
          fetchDashboardData(u, outcomes, latest) /\ UNCHANGED besideLoad
    \/ \E u \in Visitors, outcome \in Outcomes :
          fetchModules(u, outcome) /\ UNCHANGED besideLoad
    \/ \E u \in Visitors, outcome \in Outcomes :
          ModulesFetchProgress(u, outcome) /\ UNCHANGED besideLoad
    \/ \E u \in Visitors, outcomes \in [1..2 -> Outcomes] :
          fetchModuleData(u, ModuleId(1), outcomes) /\ UNCHANGED besideLoad
    \/ \E u \in Visitors, outcome \in Outcomes :
          fetchProgress(u, ModuleId(1), outcome) /\ UNCHANGED besideLoad
    \/ \E u \in Visitors, outcome \in Outcomes :
          fetchQuizResults(u, outcome) /\ UNCHANGED besideLoad
    \/ \E u \in Visitors, outcome \in Outcomes :
          IsAdmin(u) /\ fetchComments(u, outcome) /\ UNCHANGED besideLoad
    \/ \E u \in Visitors, outcome \in Outcomes :
          CommentsSectionFetchEmbedded(u, ModuleId(1), outcome) /\ UNCHANGED besideLoad
    \/ \E u \in Visitors, outcomes \in [1..2 -> Outcomes] :
          CommentsSectionFetchComments(u, ModuleId(1), outcomes) /\ UNCHANGED besideLoad
    \/ \E u \in Visitors, outcomes \in [1..5 -> Outcomes] :
          IsAdmin(u) /\ fetchAnalyticsData(u, outcomes) /\ UNCHANGED besideLoad
    \/ \E fail \in BOOLEAN, order \in Orderings(QuizzesSelect(quizView.user, quizView.moduleId)) :
          /\ fetchQuizzes(fail, order)
          /\ loadView' = QuizLoaded(fail)
          /\ UNCHANGED <<createView, authVars, pageVars>>

SpecLoad == InitLoad /\ [][NextLoad]_vars

\* C5 (as claimed): whenever a query of a page-load fetch has returned or
\* thrown an error, a toast is shown.
C5_EveryFetchErrorToasts ==
    loadView.failed => toast.variant # "none"

\* The fetches whose catch block raises a toast.
C5_Toasting == {"fetchModules", "fetchModuleData", "fetchQuizzes"}

\* C5 (amended): a failed query of fetchModules, fetchModuleData or
\* fetchQuizzes shows a destructive toast; a failed query of any other
\* page-load fetch shows no toast.
C5_FetchErrorToastsOnThreePages ==
    loadView.failed =>
        IF loadView.fetch \in C5_Toasting
           THEN toast.variant = "destructive"
           ELSE toast = NoToast

\* C5 witness: the module query of fetchModuleData failed and the toast is up.
C5_Witness ==
    /\ loadView.fetch = "fetchModuleData" /\ loadView.failed
    /\ toast = Destructive("Error")

(***************************************************************************)
(* The auth server and the two functions that call its admin API.          *)
(***************************************************************************)
\* The server keeps and looks up addresses in lower case.
LowerChar(c) == CASE c = "A" -> "a" [] c = "C" -> "c" [] OTHER -> c

Lower(email) == [i \in DOMAIN email |-> LowerChar(email[i])]

\* auth.users ids, in the order gen_random_uuid() hands them out.
UserIdPool == <<"u1", "u2", "u3", "u4", "u5">>

Body(email, password, name) ==
    [valid |-> TRUE, email |-> email, password |-> password, name |-> name]

\* The trigger left out: no profiles row is written.
handle_new_userMissing(newUser) == profiles

\* handle_new_user, AFTER INSERT ON auth.users: the profiles row of the new user,
\* written over a row the user already has.
handle_new_user(newUser) ==
    LET row == [user_id |-> newUser.id,
                name |-> IF newUser.name = NoName THEN "User" ELSE newUser.name,
                role |-> "student", email |-> newUser.email]
    IN IF \E p \in profiles : p.user_id = newUser.id
          THEN {IF p.user_id = newUser.id
                   THEN [p EXCEPT !.name = row.name, !.email = row.email]
                   ELSE p : p \in profiles}
          ELSE profiles \cup {row}

\* auth.admin.createUser fails when the call fails or the address is taken.
CreateUserError(body, outcome) ==
    outcome # "ok" \/ \E u \in auth_users : u.email = Lower(body.email)

\* What a function answered.
Answered(view, status, payload) ==
    [view EXCEPT !.pc = "responded", !.status = status, !.payload = payload]

\* A request as it reaches a function.
Received(origin, method, body) ==
    [NoCall EXCEPT !.pc = "received", !.origin = origin, !.method = method,
                   !.body = body]

\* An admin API call made, and the error it returned if any.
AdminCallTwice(view, name, outcome) ==
    [view EXCEPT !.adminCalls = Append(Append(@, name), name),
                 !.failed = IF outcome = "ok" THEN "none" ELSE name]

AdminCall(view, name, outcome) ==
    [view EXCEPT !.adminCalls = Append(@, name),
                 !.failed = IF outcome = "ok" THEN "none" ELSE name]

\* create-user: one request, from the preflight check to the response.
createUserHandler(method, body, outcome) ==
    LET req == Received("http", method, body)
        newUser == [id |-> UserIdPool[nextUserId], email |-> Lower(body.email),
                password |-> body.password, email_confirmed |-> TRUE,
                name |-> body.name]
        called == AdminCall(req, "createUser",
                            IF CreateUserError(body, outcome) THEN "error" ELSE "ok")
    IN
    /\ (method = "OPTIONS") => body = Malformed
    /\ (method # "OPTIONS" /\ body.valid /\ ~CreateUserError(body, outcome))
          => nextUserId <= MaxUserIds
    /\ IF method = "OPTIONS"
          THEN /\ createUserView' = Answered(req, 200, "null")
               /\ UNCHANGED <<auth_users, nextUserId, profiles>>
          ELSE IF ~body.valid
          THEN /\ createUserView' = Answered([req EXCEPT !.failed = "json"], 500, "error")
               /\ UNCHANGED <<auth_users, nextUserId, profiles>>
          ELSE IF CreateUserError(body, outcome)
          THEN /\ createUserView' = Answered(called, 500, "error")
               /\ UNCHANGED <<auth_users, nextUserId, profiles>>
          ELSE /\ auth_users' = auth_users \cup {newUser}
               /\ nextUserId' = nextUserId + 1
               /\ profiles' = handle_new_user(newUser)
               /\ createUserView' =
                      Answered([called EXCEPT !.found = newUser.id], 200, "success")
    /\ UNCHANGED <<modules, quizzes, quiz_attempts, progress, comments,
                   nextModuleId, nextQuizId, nextAttemptId, nextProgressId,
                   requester, toast, nav, signInView, confirmUserView>>

\* listUsers() without a page: the first page, of this many users.
ListUsersPerPage == 50

\* A confirm-user request sent by anyone but signIn.
confirmUserRequest(method, body) ==
    /\ confirmUserView.pc \in {"idle", "responded"}
    /\ ~(confirmUserView.origin = "signIn" /\ signInView.pc = "confirming")
    /\ (method = "OPTIONS") => body = Malformed
    /\ confirmUserView' = Received("http", method, body)
    /\ UNCHANGED <<storeVars, auth_users, nextUserId, requester, toast, nav,
                   signInView, createUserView>>

\* usersData.users.find(u => u.email === email)
FindByEmailIgnoringCase(users, email) == {u \in users : Lower(u.email) = Lower(email)}

FindByEmail(users, email) == {u \in users : u.email = email}

\* confirm-user up to its second await: the preflight check, the body, the
\* listing and the search for the address.
confirmUserList(outcome, page) ==
    LET v == confirmUserView
        listed == [AdminCall(v, "listUsers", outcome) EXCEPT
                      !.listed = IF outcome = "ok" THEN {u.email : u \in page} ELSE {}]
        user == FindByEmail(page, v.body.email)
    IN
    /\ v.pc = "received"
    /\ page \in Limit(auth_users, ListUsersPerPage)
    /\ confirmUserView' =
          IF v.method = "OPTIONS" THEN Answered(v, 200, "null")
          ELSE IF ~v.body.valid THEN Answered([v EXCEPT !.failed = "json"], 500, "error")
          ELSE IF outcome # "ok" THEN Answered(listed, 500, "error")
          ELSE IF user = {} THEN Answered(listed, 404, "User not found")
          ELSE [listed EXCEPT !.pc = "listed",
                              !.found = (CHOOSE u \in user : TRUE).id]
    /\ UNCHANGED <<storeVars, auth_users, nextUserId, requester, toast, nav,
                   signInView, createUserView>>

\* auth.admin.updateUserById(id, { email_confirm: true })
UpdateUserById(id) ==
    {IF u.id = id THEN [u EXCEPT !.email_confirmed = TRUE] ELSE u : u \in auth_users}

\* confirm-user from the update of the found user to the response.
confirmUserUpdate(outcome) ==
    LET v == confirmUserView
        updated == AdminCall(v, "updateUserById", outcome)
    IN
    /\ v.pc = "listed"
    /\ IF outcome # "ok"
          THEN /\ confirmUserView' = Answered(updated, 500, "error")
               /\ UNCHANGED auth_users
          ELSE /\ auth_users' = UpdateUserById(v.found)
               /\ confirmUserView' = Answered(updated, 200, "success")
    /\ UNCHANGED <<storeVars, nextUserId, requester, toast, nav,
                   signInView, createUserView>>

(***************************************************************************)
(* signIn of AuthProvider, one step per awaited call.                      *)
(***************************************************************************)
\* error.message of supabase.auth.signInWithPassword, "none" for a session.
SignInWithPassword(email, password, outcome) ==
    LET user == {u \in auth_users : u.email = Lower(email)}
    IN IF outcome # "ok" THEN "Failed to fetch"
       ELSE IF \A u \in user : u.password # password THEN "Invalid login credentials"
       ELSE IF \E u \in user : ~u.email_confirmed THEN "Email not confirmed"
       ELSE "none"

\* signIn has returned: the toast it showed and the error it returned.
SignInReturn(view, shown, error) ==
    /\ signInView' = [view EXCEPT !.pc = "done", !.returned = error]
    /\ toast' = shown

\* signIn still awaits a call: nothing shown yet.
SignInAwait(view, pc) ==
    /\ signInView' = [view EXCEPT !.pc = pc]
    /\ toast' = NoToast

\* The retry's condition: the message that starts the confirmation.
NeedsConfirmationAnyError(message) == message # "none"

NeedsConfirmation(message) == message = "Email not confirmed"

\* signIn up to its second await: the first signInWithPassword and the
\* branch on its error.
signIn(email, password, outcome) ==
    LET message == SignInWithPassword(email, password, outcome)
        view == [SignInIdle EXCEPT !.email = email, !.password = password,
                                   !.passwordCalls = 1, !.firstError = message]
    IN
    /\ signInView.pc \in {"idle", "done"}
    /\ IF outcome = "throw"
          THEN SignInReturn(view, Destructive("Sign In Failed"), message)
          ELSE IF message = "none"
          THEN SignInReturn(view, Plain("Welcome back!"), "null")
          ELSE IF NeedsConfirmation(message)
          THEN SignInAwait(view, "invoking")
          ELSE SignInReturn(view, Destructive("Sign In Failed"), message)
    /\ requester' = "none"
    /\ nav' = "none"
    /\ UNCHANGED <<storeVars, auth_users, nextUserId, createUserView, confirmUserView>>

\* supabase.functions.invoke('confirm-user', { body: { email } }) is sent,
\* or fails before it reaches the function.
signInInvoke(fail) ==
    LET view == [signInView EXCEPT !.confirmCalls = @ + 1,
                                   !.confirmResponse = IF fail THEN "error" ELSE "none"]
    IN
    /\ signInView.pc = "invoking"
    /\ confirmUserView.pc \in {"idle", "responded"}
    /\ IF fail
          THEN /\ SignInReturn(view, Destructive("Sign In Failed"),
                               "Failed to send a request to the Edge Function")
               /\ UNCHANGED confirmUserView
          ELSE /\ SignInAwait(view, "confirming")
               /\ confirmUserView' =
                      Received("signIn", "POST", Body(signInView.email, "none", NoName))
    /\ requester' = "none"
    /\ nav' = "none"
    /\ UNCHANGED <<storeVars, auth_users, nextUserId, createUserView>>

\* The function's response arrives: an error unless the status is 2xx.
signInConfirmed(fail) ==
    LET status == confirmUserView.status
    IN
    /\ signInView.pc = "confirming"
    /\ confirmUserView.pc = "responded" /\ confirmUserView.origin = "signIn"
    /\ IF fail \/ status < 200 \/ status > 299
          THEN SignInReturn([signInView EXCEPT !.confirmResponse = "error"],
                            Destructive("Sign In Failed"),
                            "Edge Function returned a non-2xx status code")
          ELSE SignInAwait([signInView EXCEPT !.confirmResponse = "ok"], "retrying")
    /\ requester' = "none"
    /\ nav' = "none"
    /\ UNCHANGED <<storeVars, auth_users, nextUserId, createUserView, confirmUserView>>

signInRetryIgnoringError(outcome) ==
    LET message == SignInWithPassword(signInView.email, signInView.password, outcome)
        view == [signInView EXCEPT !.passwordCalls = @ + 1, !.retryError = message]
    IN
    /\ signInView.pc = "retrying"
    /\ SignInReturn(view, Plain("Welcome back!"), "null")
    /\ requester' = "none"
    /\ nav' = "none"
    /\ UNCHANGED <<storeVars, auth_users, nextUserId, createUserView, confirmUserView>>

\* The second signInWithPassword, after the confirmation.
signInRetry(outcome) ==
    LET message == SignInWithPassword(signInView.email, signInView.password, outcome)
        view == [signInView EXCEPT !.passwordCalls = @ + 1, !.retryError = message]
    IN
    /\ signInView.pc = "retrying"
    /\ IF message # "none"
          THEN SignInReturn(view, Destructive("Sign In Failed"), message)
          ELSE SignInReturn(view, Plain("Welcome back!"), "null")
    /\ requester' = "none"
    /\ nav' = "none"
    /\ UNCHANGED <<storeVars, auth_users, nextUserId, createUserView, confirmUserView>>

(***************************************************************************)
(* Accounts, sign-ins and function requests in any interleaving.           *)
(***************************************************************************)
SignInEmails == {<<"a">>, <<"A">>}

Passwords == {"p", "q"}

CreateUserBodies ==
    {Body(<<"A">>, "p", "Ann"), Body(<<"c">>, "p", "Ann"), Body(<<"c">>, "p", NoName),
     Body(<<"d">>, "p", "")}

ConfirmUserBodies == {Body(email, "none", NoName) : email \in {<<"a">>, <<"A">>, <<"b">>}}

Methods == {"OPTIONS", "POST"}

\* The seeded accounts, each confirmed or not.
InitAuth ==
    /\ profiles = {ProfileRow("u1", "student"), ProfileRow("u2", "admin")}
    /\ modules = {}
    /\ quizzes = {}
    /\ quiz_attempts = {}
    /\ progress = {}
    /\ comments = {}
    /\ auth_users \in {{AuthUser("u1", c1), AuthUser("u2", c2)} : c1, c2 \in BOOLEAN}
    /\ nextModuleId = 1
    /\ nextQuizId = 1
    /\ nextAttemptId = 1
    /\ nextProgressId = 1
    /\ nextUserId = 3
    /\ requester = "none"
    /\ toast = NoToast
    /\ nav = "none"
    /\ createView = CreateIdle(FALSE)
    /\ quizView = QuizMount("none", NoId)
    /\ loadView = NoLoad
    /\ signInView = SignInIdle
    /\ createUserView = NoCall
    /\ confirmUserView = NoCall
    /\ NoPages

\* The views a sign-in or a function request leaves alone.
besideAuth == <<createView, quizView, loadView, pageVars>>

NextAuth ==
    \/ \E email \in SignInEmails, password \in Passwords, outcome \in Outcomes :
          signIn(email, password, outcome) /\ UNCHANGED besideAuth
    \/ \E fail \in BOOLEAN : signInInvoke(fail) /\ UNCHANGED besideAuth
    \/ \E fail \in BOOLEAN : signInConfirmed(fail) /\ UNCHANGED besideAuth
    \/ \E outcome \in Outcomes : signInRetry(outcome) /\ UNCHANGED besideAuth
    \/ \E method \in Methods, body \in CreateUserBodies \cup {Malformed},
          outcome \in Outcomes :
          createUserHandler(method, body, outcome) /\ UNCHANGED besideAuth
    \/ \E method \in Methods, body \in ConfirmUserBodies \cup {Malformed} :
          confirmUserRequest(method, body) /\ UNCHANGED besideAuth
    \/ \E outcome \in Outcomes, page \in Limit(auth_users, ListUsersPerPage) :
          confirmUserList(outcome, page) /\ UNCHANGED besideAuth
    \/ \E outcome \in Outcomes : confirmUserUpdate(outcome) /\ UNCHANGED besideAuth

SpecAuth == InitAuth /\ [][NextAuth]_vars

\* C7 (as claimed): an invocation of signIn sends at most one
\* signInWithPassword request, whatever error the first one returns.
C7_AtMostOnePasswordRequest ==
    signInView.passwordCalls <= 1

\* C7 (amended): an invocation of signIn sends at most two signInWithPassword
\* requests, the second only after the first returned the error 'Email not
\* confirmed' and the one confirm-user invocation that followed returned
\* without error.
C7_SecondRequestOnlyAfterConfirmation ==
    /\ signInView.passwordCalls <= 2
    /\ signInView.confirmCalls <= 1
    /\ signInView.passwordCalls = 2 =>
          /\ signInView.firstError = "Email not confirmed"
          /\ signInView.confirmCalls = 1
          /\ signInView.confirmResponse = "ok"

\* C7 witness: the retry after the confirmation signed the user in.
C7_Witness ==
    /\ signInView.pc = "done" /\ signInView.passwordCalls = 2
    /\ signInView.returned = "null"

\* C8 (as claimed): each function makes at most one admin API call for a
\* request, and none for an OPTIONS preflight.
C8_AtMostOneAdminCall ==
    \A view \in {createUserView, confirmUserView} :
        /\ Len(view.adminCalls) <= 1
        /\ view.method = "OPTIONS" => view.adminCalls = <<>>

\* C8 (amended): create-user makes at most one admin API call (createUser)
\* for a request; confirm-user makes at most two, one listUsers and then at
\* most one updateUserById; neither makes any for an OPTIONS preflight.
C8_AdminCallsPerRequest ==
    /\ createUserView.adminCalls \in {<<>>, <<"createUser">>}
    /\ confirmUserView.adminCalls \in
          {<<>>, <<"listUsers">>, <<"listUsers", "updateUserById">>}
    /\ \A view \in {createUserView, confirmUserView} :
          view.method = "OPTIONS" => view.adminCalls = <<>>

\* C8 witness: confirm-user answered 200 after its two admin calls.
C8_Witness ==
    /\ confirmUserView.pc = "responded" /\ confirmUserView.status = 200
    /\ confirmUserView.adminCalls = <<"listUsers", "updateUserById">>

\* What confirm-user has answered to a request with body {email}.
C9_Responses ==
    LET v == confirmUserView IN
    (v.pc = "responded" /\ v.method = "POST" /\ v.body.valid) =>
        /\ v.status \in {200, 404, 500}
        /\ v.status = 200 =>
              /\ v.payload = "success"
              /\ v.adminCalls = <<"listUsers", "updateUserById">>
              /\ v.failed = "none"
              /\ \E u \in auth_users :
                    u.id = v.found /\ u.email = v.body.email /\ u.email_confirmed
        /\ v.status = 404 <=> (v.failed = "none" /\ v.body.email \notin v.listed)
        /\ v.status = 404 =>
              v.payload = "User not found" /\ v.adminCalls = <<"listUsers">>
        /\ v.status = 500 <=> v.failed \in {"listUsers", "updateUserById"}
        /\ v.status = 500 => v.payload = "error"

\* A step of confirm-user confirms no user but the one with the requested
\* address, and none when it answers 404.
C9_ConfirmsOnlyRequested ==
    \A u \in auth_users :
        (~u.email_confirmed /\ [u EXCEPT !.email_confirmed = TRUE] \in auth_users') =>
            /\ confirmUserView.pc = "listed"
            /\ u.email = confirmUserView.body.email
            /\ confirmUserView'.status = 200

\* C9: for a request with body {email}, confirm-user answers 200 with
\* success only after updateUserById succeeded for the user with that address,
\* 404 'User not found' without an update when no listed user has it, and 500
\* when listing or updating fails; it never confirms a user with another
\* address.
C9_ConfirmUserContract ==
    []C9_Responses /\ [][C9_ConfirmsOnlyRequested]_vars

\* C9 witness: confirm-user answered 200 for u1's address and u1 is confirmed.
C9_Witness ==
    /\ confirmUserView.pc = "responded" /\ confirmUserView.status = 200
    /\ confirmUserView.found = "u1"
    /\ AuthUser("u1", TRUE) \in auth_users

\* C10: when create-user answers 200 for {email, password, name}, the new
\* user is confirmed and has exactly one profiles row, with role 'student' and
\* the supplied name; when createUser errors, it answers 500 with an error
\* payload and no profiles row is created.
C10_CreateUserContract ==
    [][(createUserView' # createUserView /\ createUserView'.method = "POST") =>
          LET v == createUserView' IN
          /\ v.status = 200 =>
                /\ \E u \in auth_users' \ auth_users :
                      u.id = v.found /\ u.email_confirmed
                /\ Cardinality({p \in profiles' : p.user_id = v.found}) = 1
                /\ \A p \in profiles' :
                      p.user_id = v.found =>
                          /\ p.role = "student"
                          /\ v.body.name # NoName => p.name = v.body.name
                /\ profiles \subseteq profiles'
          /\ v.failed = "createUser" =>
                /\ v.status = 500 /\ v.payload = "error"
                /\ profiles' = profiles /\ auth_users' = auth_users]_vars

\* C10 witness: create-user answered 200 for the name Ann and the profile is there.
C10_Witness ==
    /\ createUserView.pc = "responded" /\ createUserView.status = 200
    /\ createUserView.method = "POST"
    /\ \E p \in profiles : /\ p.user_id = createUserView.found
                           /\ p.name = "Ann" /\ p.role = "student"

(***************************************************************************)
(* ModuleContent page: its two fetches, the user arriving, markAsComplete. *)
(***************************************************************************)
\* The table without its UNIQUE(user_id, module_id): a second row of a pair
\* is accepted.
ProgressUpsertErrorNoUnique(uid, row) ==
    \/ uid # row.user_id
    \/ ~(\E u \in auth_users : u.id = row.user_id)
    \/ ~(\E m \in modules : m.id = row.module_id)

\* progress: "Users can update their own progress" FOR ALL with
\* WITH CHECK (auth.uid() = user_id); user_id and module_id REFERENCES;
\* UNIQUE(user_id, module_id).  The upsert names no onConflict column, so only
\* a clash of the generated primary key would turn it into an update.
ProgressUpsertError(uid, row) ==
    \/ uid # row.user_id
    \/ ~(\E u \in auth_users : u.id = row.user_id)
    \/ ~(\E m \in modules : m.id = row.module_id)
    \/ \E p \in progress : p.user_id = row.user_id /\ p.module_id = row.module_id

\* progress?.completed || false
isCompleted(view) == \E p \in view.progress : p.completed

\* { ...progress, completed: true }
SpreadCompleted(cell) ==
    IF cell = {} THEN {[completed |-> TRUE]}
    ELSE {[p EXCEPT !.completed = TRUE] : p \in cell}

\* The route /modules/:id is opened.
moduleMount(session, delivered, id) ==
    /\ moduleView.pc = "idle"
    /\ moduleView' = ModuleMount(session, IF delivered THEN session ELSE "none", id)
    /\ requester' = "none"
    /\ toast' = NoToast
    /\ nav' = "none"
    /\ UNCHANGED <<storeVars, loadView>>

\* AuthProvider delivers the session's user; the mount effect depends on
\* the route id only and does not run again.
moduleUserDelivered ==
    /\ moduleView.mounted
    /\ moduleView.user = "none" /\ moduleView.session # "none"
    /\ moduleView' = [moduleView EXCEPT !.user = moduleView.session]
    /\ requester' = "none"
    /\ toast' = NoToast
    /\ nav' = "none"
    /\ UNCHANGED <<storeVars, loadView>>

\* fetchModuleData resolves on the mounted page.
moduleFetchModuleData(outcomes) ==
    /\ moduleView.mounted /\ ~moduleView.moduleFetched
    /\ fetchModuleData(moduleView.session, moduleView.id, outcomes)
    /\ moduleView' = [moduleView EXCEPT !.module = loadView'.data.module,
                                        !.loading = FALSE,
                                        !.moduleFetched = TRUE,
                                        !.fetchFailed = @ \/ loadView'.failed]

\* fetchProgress resolves on the mounted page; a caught error sets nothing.
moduleFetchProgress(outcome) ==
    /\ moduleView.mounted /\ ~moduleView.progressFetched
    /\ fetchProgress(moduleView.user, moduleView.id, outcome)
    /\ moduleView' = [moduleView EXCEPT
                         !.progress = IF loadView'.logged THEN @
                                      ELSE loadView'.data.progress,
                         !.progressFetched = TRUE,
                         !.fetchFailed = @ \/ loadView'.failed]

\* "Mark as Complete": rendered once the module is loaded and while the
\* page does not show it completed, disabled while completingModule.  Up to
\* the await of the upsert.
markAsComplete ==
    LET v == moduleView IN
    /\ v.mounted /\ ~v.loading /\ v.module # {}
    /\ ~isCompleted(v) /\ ~v.completingModule
    /\ moduleView' = IF v.user = "none" \/ v.id = NoId
                        THEN [v EXCEPT !.response = "none"]
                        ELSE [v EXCEPT !.completingModule = TRUE, !.pc = "upsert",
                                       !.closure = v.progress, !.response = "none"]
    /\ requester' = "none"
    /\ toast' = NoToast
    /\ nav' = "none"
    /\ UNCHANGED <<storeVars, loadView>>

\* INSERT ... ON CONFLICT (id) DO UPDATE: the row is inserted, or written
\* over the row with its id.
ProgressUpsert(row) == {p \in progress : p.id # row.id} \cup {row}

\* catch: the toast; finally: setCompletingModule(false).  An optimistic
\* page would show the module completed all the same.
MarkCatchCompleted(view, why) ==
    [view EXCEPT !.progress = SpreadCompleted(view.closure),
                 !.completingModule = FALSE, !.pc = "idle", !.response = why]

MarkCatch(view, why) ==
    [view EXCEPT !.completingModule = FALSE, !.pc = "idle", !.response = why]

\* setProgress({ ...progress, completed: true }); finally:
\* setCompletingModule(false).
MarkSucceed(view) ==
    [view EXCEPT !.progress = SpreadCompleted(view.closure),
                 !.completingModule = FALSE, !.pc = "idle", !.response = "ok"]

\* The upsert reaches the backend (or fails in transport) and
\* markAsComplete resumes.
markAsCompleteUpsert(fail) ==
    LET v == moduleView
        row == ProgressRow(nextProgressId, v.user, v.id)
        rejected == ProgressUpsertError(v.session, row)
    IN
    /\ v.pc = "upsert"
    /\ (~fail /\ ~rejected) => nextProgressId <= MaxProgressIds
    /\ requester' = v.session
    /\ nav' = "none"
    /\ IF fail \/ rejected
          THEN /\ moduleView' = MarkCatch(v, IF fail THEN "transport" ELSE "rejected")
               /\ toast' = Destructive("Error")
               /\ UNCHANGED <<progress, nextProgressId>>
          ELSE /\ progress' = ProgressUpsert(row)
               /\ nextProgressId' = nextProgressId + 1
               /\ moduleView' = MarkSucceed(v)
               /\ toast' = Plain("Module Completed!")
    /\ UNCHANGED <<profiles, modules, quizzes, quiz_attempts, comments,
                   nextModuleId, nextQuizId, nextAttemptId, loadView>>

\* The modules the page is opened for.
ModuleRow(n) ==
    [id |-> ModuleId(n), title |-> <<"a">>, content |-> <<"c">>,
     category |-> "Heat Transfer"]

InitModule ==
    /\ profiles = {ProfileRow("u1", "student"), ProfileRow("u2", "admin")}
    /\ modules = {ModuleRow(n) : n \in 1..MaxModules}
    /\ quizzes = {}
    /\ quiz_attempts = {}
    /\ progress = {}
    /\ comments = {}
    /\ nextModuleId = MaxModules + 1
    /\ nextQuizId = 1
    /\ nextAttemptId = 1
    /\ nextProgressId = 1
    /\ requester = "none"
    /\ toast = NoToast
    /\ nav = "none"
    /\ createView = CreateIdle(FALSE)
    /\ quizView = QuizMount("none", NoId)
    /\ loadView = NoLoad
    /\ NoAuth
    /\ NoPages

\* The views a step of the ModuleContent page leaves alone.
besideModule == <<createView, quizView, authVars, formView, adminView, analyticsRuns,
                 providerView>>

NextModule ==
    \/ \E session \in Visitors, delivered \in BOOLEAN,
          id \in {ModuleId(n) : n \in 1..(MaxModules + 1)} :
          moduleMount(session, delivered, id) /\ UNCHANGED besideModule
    \/ moduleUserDelivered /\ UNCHANGED besideModule
    \/ \E outcomes \in [1..2 -> Outcomes] :
          moduleFetchModuleData(outcomes) /\ UNCHANGED besideModule
    \/ \E outcome \in Outcomes : moduleFetchProgress(outcome) /\ UNCHANGED besideModule
    \/ markAsComplete /\ UNCHANGED besideModule
    \/ \E fail \in BOOLEAN : markAsCompleteUpsert(fail) /\ UNCHANGED besideModule

SpecModule == InitModule /\ [][NextModule]_vars

\* A step in which markAsComplete resumes from its upsert.
C11_Resumes == moduleView.pc = "upsert" /\ moduleView'.pc = "idle"

\* C11: markAsComplete shows the module completed only once the upsert has
\* returned without error (the row is then stored); when the upsert returns
\* an error the progress cell is unchanged and a destructive toast is shown;
\* either way completingModule is false afterwards, and nothing is shown
\* completed while the upsert is awaited.
C11_CompletedOnlyAfterUpsert ==
    [][/\ (moduleView.pc = "idle" /\ moduleView'.pc = "upsert") =>
              /\ moduleView'.progress = moduleView.progress
              /\ moduleView'.completingModule
       /\ C11_Resumes =>
              /\ ~moduleView'.completingModule
              /\ IF moduleView'.response = "ok"
                    THEN /\ isCompleted(moduleView')
                         /\ toast'.variant = "default"
                         /\ \E p \in progress' \ progress :
                               /\ p.user_id = moduleView.user
                               /\ p.module_id = moduleView.id /\ p.completed
                    ELSE /\ moduleView'.progress = moduleView.progress
                         /\ toast'.variant = "destructive"
                         /\ progress' = progress]_vars

\* C11 witness: the upsert was accepted and the page shows the module completed.
C11_Witness ==
    /\ moduleView.pc = "idle" /\ moduleView.response = "ok"
    /\ isCompleted(moduleView) /\ ~moduleView.completingModule
    /\ toast = Plain("Module Completed!")

\* The progress table holds at most one row per (user_id, module_id).
C12_OneRowPerPair ==
    \A p, q \in progress :
        (p.user_id = q.user_id /\ p.module_id = q.module_id) => p = q

\* Every row a step writes is the caller's, with completed = true.
C12_WritesOwnCompletedRow ==
    \A p \in progress' \ progress :
        /\ p.user_id = moduleView.session /\ p.user_id = requester'
        /\ p.completed

\* C12: after any sequence of markAsComplete calls by any users on any
\* modules, progress holds at most one row per (user_id, module_id), and
\* every row markAsComplete writes has the calling user's id and
\* completed = true.
C12_ProgressRows ==
    []C12_OneRowPerPair /\ [][C12_WritesOwnCompletedRow]_vars

\* C12 witness: both users have completed a module, and an upsert for a pair
\* that had its row already has been answered.
C12_Witness ==
    /\ \E p, q \in progress : p.user_id # q.user_id
    /\ moduleView.response = "rejected"
    /\ \E p \in progress : p.user_id = moduleView.user /\ p.module_id = moduleView.id

\* C13: markAsComplete resuming from an upsert that reached the backend, for
\* a (user, module) pair that already has a progress row, shows no error
\* toast and leaves exactly one row of the pair, with completed = true.
C13_MarkAsCompleteIdempotent ==
    [][(/\ moduleView.pc = "upsert" /\ moduleView'.pc = "idle"
        /\ moduleView'.response # "transport"
        /\ \E p \in progress : /\ p.user_id = moduleView.user
                               /\ p.module_id = moduleView.id) =>
          /\ toast'.variant # "destructive"
          /\ moduleView'.response = "ok"
          /\ Cardinality({p \in progress' : /\ p.user_id = moduleView.user
                                            /\ p.module_id = moduleView.id
                                            /\ p.completed}) = 1]_vars

\* The page has nothing left to wait for: the user is delivered, both
\* fetches of the mount effect are over without an error, no upsert is awaited.
C14_Settled ==
    /\ moduleView.mounted /\ moduleView.module # {}
    /\ moduleView.session # "none" /\ moduleView.user = moduleView.session
    /\ moduleView.moduleFetched /\ moduleView.progressFetched
    /\ ~moduleView.fetchFailed /\ moduleView.pc = "idle"

\* C14: once the ModuleContent page has settled, a completed progress row of
\* the signed-in user and the viewed module shows as the 'Completed' badge,
\* also when the page mounted before the user was delivered.
C14_CompletedBadgeShown ==
    (/\ C14_Settled
     /\ \E p \in progress : /\ p.user_id = moduleView.session
                            /\ p.module_id = moduleView.id /\ p.completed)
        => isCompleted(moduleView)

\* The number of submitted answers marked correct.
C15_Correct(row) == Cardinality({i \in DOMAIN row.answers : row.answers[i].is_correct})

\* The row submitQuiz has computed: the score is round(100 * c / n), an
\* integer in 0..100, and the answers list has one entry per question, marked
\* correct exactly where the recorded answer equals correct_answer.
C15_ScoreComputed ==
    LET v == quizView
        row == v.pending
        n == Len(v.quizzes)
        c == C15_Correct(row)
    IN (row # NoRequest) =>
          /\ row.score \in 0..100
          /\ 2 * n * row.score <= 200 * c + n
          /\ 200 * c + n < 2 * n * (row.score + 1)
          /\ Len(row.answers) = n
          /\ \A i \in 1..n : row.answers[i].quiz_id = v.quizzes[i].id

FormOpen(u, id) ==
    [mounted |-> TRUE, user |-> u, id |-> id, category |-> "Heat Transfer",
     loading |-> id # NoId, pc |-> IF id # NoId THEN "fetchModule" ELSE "idle",
     sent |-> NoSent]

\* The mount effect, with the profile AuthProvider holds at that render
\* (null until fetchUserProfile has delivered it): if (profile?.role !==
\* 'admin') navigate('/dashboard'); an admin's profile starts fetchModule when
\* editing.
createMount(u, id, profile) ==
    /\ ~formView.mounted
    /\ createView.pc = "idle"
    /\ requester' = "none"
    /\ toast' = NoToast
    /\ IF profile # "admin"
          THEN /\ nav' = "/dashboard"
               /\ formView' = FormClosed(formView.sent)
          ELSE /\ nav' = "none"
               /\ formView' = [FormOpen(u, id) EXCEPT !.sent = formView.sent]
    /\ UNCHANGED <<storeVars, createView>>

\* catch of fetchModule: the destructive toast and navigate('/modules').
FormCatch ==
    /\ formView' = FormClosed(formView.sent)
    /\ toast' = Destructive("Error")
    /\ nav' = "/modules"

\* moduleData.category || 'Heat Transfer'
CategoryOrDefault(row) ==
    IF row.category # "" THEN row.category ELSE "Heat Transfer"

\* fetchModule, first query: the module row into the form.
createFetchModule(outcome) ==
    LET f == formView
        moduleData == Single(outcome, {m \in ModulesSelect(f.user) : m.id = f.id})
    IN
    /\ f.mounted /\ f.pc = "fetchModule"
    /\ requester' = f.user
    /\ IF outcome = "throw" \/ moduleData.error
          THEN FormCatch
          ELSE /\ formView' =
                     [f EXCEPT !.category =
                                  CategoryOrDefault(CHOOSE m \in moduleData.data : TRUE),
                               !.pc = "fetchQuizzes"]
               /\ toast' = NoToast
               /\ nav' = "none"
    /\ UNCHANGED <<storeVars, createView>>

\* fetchModule, second query: the module's questions; finally: setLoading(false).
createFetchQuizzes(outcome) ==
    LET f == formView
        quizzesData == Reply(outcome, QuizzesSelect(f.user, f.id))
    IN
    /\ f.mounted /\ f.pc = "fetchQuizzes"
    /\ requester' = f.user
    /\ IF outcome = "throw" \/ quizzesData.error
          THEN FormCatch
          ELSE /\ formView' = [f EXCEPT !.loading = FALSE, !.pc = "idle"]
               /\ toast' = NoToast
               /\ nav' = "none"
    /\ UNCHANGED <<storeVars, createView>>

\* The Select's onValueChange with the value of one of its three items.
handleCategoryChange(value) ==
    /\ formView.mounted /\ ~formView.loading
    /\ formView' = [formView EXCEPT !.category = value]
    /\ requester' = "none"
    /\ toast' = NoToast
    /\ nav' = "none"
    /\ UNCHANGED <<storeVars, createView>>

\* category: module.category in the update and in the insert of saveModule.
SelectedCategory(view) == view.category

\* navigate('/modules') takes the form off the screen.
FormAfterSave(sent) ==
    formView' = IF nav' = "/modules" THEN FormClosed(sent)
                                     ELSE [formView EXCEPT !.sent = sent]

\* The Save button (disabled while saving): saveModule on the form's cells.
createSaveModule(text, formQuizzes, fail) ==
    LET f == formView
        category == SelectedCategory(f)
        moduleId == IF f.id # NoId THEN f.id ELSE ModuleId(nextModuleId)
    IN
    /\ f.mounted /\ ~f.loading
    /\ saveModule(f.user, f.id, text.title, text.content, category, formQuizzes, fail)
    /\ FormAfterSave(IF requester' = "none" THEN f.sent
                     ELSE [id |-> moduleId, category |-> category])

createSaveModuleDelete(fail) ==
    saveModuleDelete(fail) /\ FormAfterSave(formView.sent)

createSaveModuleInsert(fail) ==
    saveModuleInsert(fail) /\ FormAfterSave(formView.sent)

\* Titles and contents typed into the form.
CreateTexts ==
    {[title |-> <<" ">>, content |-> <<"c">>],
     [title |-> <<"a">>, content |-> <<"c">>]}

InitCreate ==
    /\ profiles = {ProfileRow("u1", "student"), ProfileRow("u2", "admin")}
    /\ modules = {}
    /\ quizzes = {}
    /\ quiz_attempts = {}
    /\ progress = {}
    /\ comments = {}
    /\ nextModuleId = 1
    /\ nextQuizId = 1
    /\ nextAttemptId = 1
    /\ nextProgressId = 1
    /\ requester = "none"
    /\ toast = NoToast
    /\ nav = "none"
    /\ createView = CreateIdle(FALSE)
    /\ quizView = QuizMount("none", NoId)
    /\ loadView = NoLoad
    /\ NoAuth
    /\ NoPages

besideCreate == <<quizView, loadView, authVars, moduleView, adminView, analyticsRuns,
                 providerView>>

\* The form of one session, and the requests other sessions send meanwhile.
NextCreate ==
    \/ \E u \in Users, id \in {NoId} \cup ModuleIdsInUse, delivered \in BOOLEAN :
          createMount(u, id, IF delivered THEN StoredRole(ProfilesSelect(u)) ELSE "null")
             /\ UNCHANGED besideCreate
    \/ \E outcome \in Outcomes : createFetchModule(outcome) /\ UNCHANGED besideCreate
    \/ \E outcome \in Outcomes : createFetchQuizzes(outcome) /\ UNCHANGED besideCreate
    \/ \E value \in Categories : handleCategoryChange(value) /\ UNCHANGED besideCreate
    \/ \E text \in CreateTexts, formQuizzes \in FormQuizLists, fail \in BOOLEAN :
          createSaveModule(text, formQuizzes, fail) /\ UNCHANGED besideCreate
    \/ \E fail \in BOOLEAN : createSaveModuleDelete(fail) /\ UNCHANGED besideCreate
    \/ \E fail \in BOOLEAN : createSaveModuleInsert(fail) /\ UNCHANGED besideCreate
    \/ \E u \in Users, target \in ModuleIdsInUse, fail \in BOOLEAN :
          handleDeleteModule(u, target, fail) /\ UNCHANGED <<besideCreate, formView>>
    \/ \E u \in Users, updates \in ProfileUpdates, fail \in BOOLEAN :
          updateProfile(u, updates, fail) /\ UNCHANGED <<besideCreate, formView>>

SpecCreate == InitCreate /\ [][NextCreate]_vars

(***************************************************************************)
(* Properties of the CreateModule form (SpecCreate).                       *)
(***************************************************************************)
\* The form's category, and the category of every module write sent, is one
\* of the three categories.
C16_FormCategoryValid ==
    /\ formView.mounted => formView.category \in Categories
    /\ formView.sent # NoSent => formView.sent.category \in Categories

\* A saveModule invocation ended with its success toast.
C16_Succeeded ==
    /\ toast' \in {Plain("Module Created!"), Plain("Module Updated!")}
    /\ nav' = "/modules"

\* C16: after a successful saveModule (create or edit) the stored module row
\* has the category selected in the form, and the form's category is always
\* one of the three categories, so valid_category rejects no save.
C16_SavedCategoryIsSelected ==
    /\ []C16_FormCategoryValid
    /\ [][C16_Succeeded =>
             \E m \in modules' : /\ m.id = formView'.sent.id
                                 /\ m.category = formView'.sent.category]_vars

(***************************************************************************)
(* AdminAnalytics and StudentComments: the profile of AuthProvider, the    *)
(* two effects, the realtime channels and the fetches they start.          *)
(***************************************************************************)
\* ALTER PUBLICATION supabase_realtime ADD TABLE ...
Published == {"progress", "quiz_attempts", "comments"}

\* The tables of the three channels of AdminAnalytics.
AnalyticsTables == {"progress", "quiz_attempts", "profiles"}

\* if (profile && profile.role !== 'admin') { navigate('/dashboard'); return; }
ShouldRedirect(profile) == profile # "null" /\ profile # "admin"

\* if (profile?.role === 'admin') fetch
ShouldFetch(profile) == ~ShouldRedirect(profile) /\ profile = "admin"

ShouldSubscribeWithProfile(page, profile) ==
    page = "analytics" /\ profile # "null"

\* if (profile?.role !== 'admin') return;  (AdminAnalytics only)
ShouldSubscribe(page, profile) ==
    page = "analytics" /\ profile = "admin"

\* Both effects on a render with this profile: the cleanup of the channels
\* of the render before, then redirect or fetch, then the subscriptions.
AdminEffects(page, u, profile) ==
    /\ ShouldFetch(profile) => adminView.pending < MaxPending
    /\ adminView' =
          [page |-> page, user |-> u, profile |-> profile,
           channels |-> IF ShouldSubscribe(page, profile) THEN AnalyticsTables ELSE {},
           pending |-> IF ShouldFetch(profile) THEN adminView.pending + 1
                                               ELSE adminView.pending,
           inbox |-> adminView.inbox]
    /\ nav' = IF ShouldRedirect(profile) THEN "/dashboard" ELSE "none"

\* The route opens; the profile is there already or still being fetched.
adminMount(page, u, delivered) ==
    /\ adminView.page = "none"
    /\ AdminEffects(page, u, IF delivered THEN StoredRole(ProfilesSelect(u)) ELSE "null")
    /\ requester' = "none"
    /\ toast' = NoToast
    /\ UNCHANGED <<storeVars, loadView>>

\* fetchUserProfile of AuthProvider resolves: setProfile(data) renders the
\* page again; an error is logged and the profile stays.
adminProfileDelivered(outcome) ==
    LET v == adminView
        reply == Single(outcome, ProfilesSelect(v.user))
    IN
    /\ v.page # "none" /\ v.user # "none"
    /\ requester' = v.user
    /\ toast' = NoToast
    /\ IF outcome = "throw" \/ reply.error
          THEN /\ nav' = "none"
               /\ UNCHANGED adminView
          ELSE AdminEffects(v.page, v.user, StoredRole(reply.data))
    /\ UNCHANGED <<storeVars, loadView>>

\* signOut: setProfile(null); the channels of the render before are removed.
adminSignOut ==
    /\ adminView.page # "none" /\ adminView.user # "none"
    /\ AdminEffects(adminView.page, "none", "null")
    /\ requester' = "none"
    /\ toast' = Plain("Signed Out")
    /\ UNCHANGED <<storeVars, loadView>>

\* The page leaves the screen (a redirect, or the admin navigates away): the
\* cleanup removes the channels; what an unmounted page fetches is not shown.
adminUnmount ==
    /\ adminView.page # "none"
    /\ adminView' = AdminClosed(adminView.inbox)
    /\ requester' = "none"
    /\ toast' = NoToast
    /\ nav' = "none"
    /\ UNCHANGED <<storeVars, loadView>>

\* A change notification arrives: the channel's callback starts
\* fetchAnalyticsData; without a channel it is dropped.
adminRealtime ==
    LET v == adminView IN
    /\ v.inbox > 0
    /\ v.channels # {} => v.pending < MaxPending
    /\ adminView' = [v EXCEPT !.inbox = @ - 1,
                              !.pending = IF v.channels # {} THEN @ + 1 ELSE @]
    /\ requester' = "none"
    /\ toast' = NoToast
    /\ nav' = "none"
    /\ UNCHANGED <<storeVars, loadView>>

\* One fetchAnalyticsData invocation of AdminAnalytics runs.
adminFetchAnalyticsData(outcomes) ==
    /\ adminView.page = "analytics" /\ adminView.pending > 0
    /\ fetchAnalyticsData(adminView.user, outcomes)
    /\ adminView' = [adminView EXCEPT !.pending = @ - 1]

\* One fetchComments invocation of StudentComments runs.
adminFetchComments(outcome) ==
    /\ adminView.page = "comments" /\ adminView.pending > 0
    /\ fetchComments(adminView.user, outcome)
    /\ adminView' = [adminView EXCEPT !.pending = @ - 1]

\* The rows of a table that a statement inserted, updated or deleted.
RowChanges(old, new, key) ==
    Cardinality({k \in {r[key] : r \in old \cup new} :
                    {r \in old : r[key] = k} # {r \in new : r[key] = k}})

\* postgres_changes: one notification per changed row of a published table
\* that a channel of the page listens to.
Notifications ==
    (IF "progress" \in adminView.channels \cap Published
        THEN RowChanges(progress, progress', "id") ELSE 0)
    + (IF "quiz_attempts" \in adminView.channels \cap Published
          THEN RowChanges(quiz_attempts, quiz_attempts', "id") ELSE 0)
    + (IF "profiles" \in adminView.channels \cap Published
          THEN RowChanges(profiles, profiles', "user_id") ELSE 0)

\* A request of another session, and what the realtime server sends for it.
Notify ==
    /\ adminView.inbox + Notifications <= MaxInbox
    /\ adminView' = [adminView EXCEPT !.inbox = @ + Notifications]

InitAdmin ==
    /\ profiles = {ProfileRow("u1", "student"), ProfileRow("u2", "admin")}
    /\ modules = {ModuleRow(1)}
    /\ quizzes = {}
    /\ quiz_attempts = {}
    /\ progress = {ProgressRow(1, "u1", ModuleId(1))}
    /\ comments = {}
    /\ nextModuleId = 2
    /\ nextQuizId = 1
    /\ nextAttemptId = 1
    /\ nextProgressId = 2
    /\ requester = "none"
    /\ toast = NoToast
    /\ nav = "none"
    /\ createView = CreateIdle(FALSE)
    /\ quizView = QuizMount("none", NoId)
    /\ loadView = NoLoad
    /\ NoAuth
    /\ NoPages

besideAdmin == <<createView, quizView, authVars, formView, analyticsRuns, providerView>>

\* How the five queries of one fetchAnalyticsData end: at most one fails.
AnalyticsOutcomes ==
    {o \in [1..5 -> Outcomes] : Cardinality({i \in 1..5 : o[i] # "ok"}) <= 1}

\* An admin page of one session; profile updates and module deletes of other
\* sessions.
NextAdmin ==
    \/ \E page \in {"analytics", "comments"}, u \in Users, delivered \in BOOLEAN :
          adminMount(page, u, delivered) /\ UNCHANGED <<besideAdmin, moduleView>>
    \/ \E outcome \in Outcomes :
          adminProfileDelivered(outcome) /\ UNCHANGED <<besideAdmin, moduleView>>
    \/ adminSignOut /\ UNCHANGED <<besideAdmin, moduleView>>
    \/ adminUnmount /\ UNCHANGED <<besideAdmin, moduleView>>
    \/ adminRealtime /\ UNCHANGED <<besideAdmin, moduleView>>
    \/ \E outcomes \in AnalyticsOutcomes :
          adminFetchAnalyticsData(outcomes) /\ UNCHANGED <<besideAdmin, moduleView>>
    \/ \E outcome \in Outcomes :
          adminFetchComments(outcome) /\ UNCHANGED <<besideAdmin, moduleView>>
    \/ \E u \in Users, updates \in ProfileUpdates, fail \in BOOLEAN :
          updateProfile(u, updates, fail) /\ Notify
             /\ UNCHANGED <<besideAdmin, moduleView, loadView>>
    \/ \E u \in Users, fail \in BOOLEAN :
          handleDeleteModule(u, ModuleId(1), fail) /\ Notify
             /\ UNCHANGED <<besideAdmin, moduleView, loadView>>

SpecAdmin == InitAdmin /\ [][NextAdmin]_vars

(***************************************************************************)
(* Properties of the admin pages (SpecAdmin).                              *)
(***************************************************************************)
\* A step in which an admin page started a fetch.
C17_Invoked == adminView'.pending > adminView.pending

\* A step in which the page rendered with a newly loaded profile.
C17_Loaded ==
    /\ adminView'.page # "none" /\ adminView'.profile # "null"
    /\ adminView.page = "none" \/ adminView.profile # adminView'.profile

\* C17: fetchAnalyticsData and the admin fetchComments are invoked only while
\* the loaded profile has role 'admin'; a page that renders with a loaded
\* profile of another role navigates to /dashboard, starts no fetch and has
\* no realtime channel.
C17_AdminOnly ==
    /\ [](adminView.channels # {} => adminView.profile = "admin")
    /\ [][/\ C17_Invoked => adminView'.profile = "admin"
          /\ (C17_Loaded /\ adminView'.profile # "admin") =>
                (nav' = "/dashboard" /\ ~C17_Invoked /\ adminView'.channels = {})]_vars

\* A student's profile was loaded on an admin page that redirected, after an
\* admin's page had run fetchAnalyticsData.
C17_Witness ==
    /\ adminView.page # "none" /\ adminView.profile = "student"
    /\ nav = "/dashboard"
    /\ loadView.fetch = "fetchAnalyticsData"

\* A step that changes a row of a table AdminAnalytics has a channel on.
C18_RowChanged ==
    \/ ("progress" \in adminView.channels /\ progress' # progress)
    \/ ("quiz_attempts" \in adminView.channels /\ quiz_attempts' # quiz_attempts)
    \/ ("profiles" \in adminView.channels /\ profiles' # profiles)

\* C18: while AdminAnalytics is mounted with an admin profile, every row
\* change in progress, quiz_attempts and profiles sends the page a
\* notification, and every notification that arrives starts a
\* fetchAnalyticsData run; after unmount there is no channel and no
\* notification starts a run.
C18_EveryChangeRefetches ==
    /\ []((adminView.page = "analytics" /\ adminView.profile = "admin")
             => adminView.channels = AnalyticsTables)
    /\ [](adminView.page = "none" => adminView.channels = {})
    /\ [][/\ C18_RowChanged => adminView'.inbox > adminView.inbox
          /\ (adminView'.inbox < adminView.inbox /\ adminView.channels # {})
                => adminView'.pending = adminView.pending + 1
          /\ (adminView.page = "none" /\ adminView'.page = "none")
                => adminView'.pending = adminView.pending]_vars

(***************************************************************************)
(* The analytics rollups over stores the constraints and policies admit.   *)
(***************************************************************************)
\* The score of the attempt row with the n-th id.
ScoreOf(n) == IF n = 1 THEN 40 ELSE IF n = 2 THEN 100 ELSE 70

\* progress rows of u1, one or none per module, completed or not
\* (UNIQUE (user_id, module_id), module_id REFERENCES modules).
ProgressTables(count) ==
    {{[id |-> ProgressId(n), user_id |-> "u1", module_id |-> ModuleId(n),
       completed |-> choice[n] = "completed"] : n \in {k \in 1..count : choice[k] # "none"}} :
        choice \in [1..count -> {"none", "open", "completed"}]}

\* quiz_attempts rows: each of a user on a stored quiz (quiz_id REFERENCES
\* quizzes), as a request sent with a quiz's id stores them; the first is
\* anyone's, the others are u1's.
AttemptTables(count) ==
    {{[id |-> AttemptId(n), user_id |-> IF n = 1 THEN first ELSE "u1",
       quiz_id |-> QuizId(quiz[n]), score |-> ScoreOf(n), answers |-> <<>>] :
          n \in {k \in 1..MaxAttemptIds : quiz[k] # 0}} :
        first \in Users, quiz \in [1..MaxAttemptIds -> 0..count]}

\* Stores with up to MaxRollupModules modules, each with one question.
InitRollup ==
    /\ profiles = {ProfileRow("u1", "student"), ProfileRow("u2", "admin")}
    /\ \E count \in 0..MaxRollupModules :
          /\ modules = {ModuleRow(n) : n \in 1..count}
          /\ quizzes = {StoredQuiz(ModuleId(n), n, <<"x">>) : n \in 1..count}
          /\ progress \in ProgressTables(count)
          /\ quiz_attempts \in AttemptTables(count)
    /\ comments = {}
    /\ nextModuleId = MaxRollupModules + 1
    /\ nextQuizId = MaxRollupModules + 1
    /\ nextAttemptId = MaxAttemptIds + 1
    /\ nextProgressId = MaxRollupModules + 1
    /\ requester = "none"
    /\ toast = NoToast
    /\ nav = "none"
    /\ createView = CreateIdle(FALSE)
    /\ quizView = QuizMount("none", NoId)
    /\ loadView = NoLoad
    /\ NoAuth
    /\ NoPages

\* fetchAnalyticsData of a page whose AuthProvider profile says 'admin'; the
\* stored role of its user may have changed since the profile was fetched.
NextRollup ==
    \E u \in Users, outcomes \in AnalyticsOutcomes :
       fetchAnalyticsData(u, outcomes) /\ UNCHANGED besideLoad

SpecRollup == InitRollup /\ [][NextRollup]_vars

(***************************************************************************)
(* Properties of the rollups (SpecRollup).                                 *)
(***************************************************************************)
\* fetchAnalyticsData has run and each of its queries returned rows.
C19_Fetched == loadView.fetch = "fetchAnalyticsData" /\ ~loadView.failed

RECURSIVE C20_SumAttempts(_)
C20_SumAttempts(stats) ==
    IF stats = {} THEN 0
    ELSE LET s == CHOOSE t \in stats : TRUE
         IN s.total_attempts + C20_SumAttempts(stats \ {s})

\* The per-module total_attempts add up to the number of attempts fetched.
C20_TotalsAddUp ==
    C19_Fetched =>
       C20_SumAttempts(loadView.data.moduleStats) = Cardinality(loadView.data.attemptsData)

(***************************************************************************)
(* The quiz page of a student and AdminAnalytics of an admin on one store. *)
(***************************************************************************)
InitAttempts ==
    /\ profiles = {ProfileRow("u1", "student"), ProfileRow("u2", "admin")}
    /\ modules = {ModuleRow(1)}
    /\ quizzes \in QuizTables
    /\ quiz_attempts = {}
    /\ progress = {}
    /\ comments = {}
    /\ nextModuleId = 2
    /\ nextQuizId = MaxQuestions + 1
    /\ nextAttemptId = 1
    /\ nextProgressId = 1
    /\ requester = "none"
    /\ toast = NoToast
    /\ nav = "none"
    /\ createView = CreateIdle(FALSE)
    /\ quizView = QuizMount("u1", ModuleId(1))
    /\ loadView = NoLoad
    /\ NoAuth
    /\ NoPages

NextAttempts ==
    \/ NextQuiz
    \/ \E outcomes \in AnalyticsOutcomes :
          fetchAnalyticsData("u2", outcomes) /\ UNCHANGED besideLoad

SpecAttempts == InitAttempts /\ [][NextAttempts]_vars

\* A fetchAnalyticsData run whose queries all returned rows.
C20_FetchRan ==
    /\ quizView' = quizView
    /\ requester' = loadView'.user
    /\ loadView'.fetch = "fetchAnalyticsData" /\ ~loadView'.failed

\* The quiz page's last submission reached the backend.
C20_Submitted == quizView.response \in {"ok", "rejected"}

C21_StudentsAreStudentProfiles ==
    (C19_Fetched /\ IsAdmin(loadView.user)) =>
       loadView.data.students =
          {[id |-> p.user_id, name |-> p.name, email |-> p.email] :
              p \in {q \in profiles : q.role = "student"}}

(***************************************************************************)
(* The Dashboard over stores in which two users have rows.                 *)
(***************************************************************************)
\* progress.filter(p => p.completed).length
DashboardCompleted(data) == Cardinality({p \in data.progress : p.completed})

\* modules.length
DashboardTotal(data) == Cardinality(data.modules)

\* totalModules > 0 ? (completedModules / totalModules) * 100 : 0
DashboardPercentage(data) ==
    IF DashboardTotal(data) > 0
       THEN Quotient(DashboardCompleted(data) * 100, DashboardTotal(data))
       ELSE Quotient(0, 1)

\* The progress rows of u2: none, or one completed row per module.
OthersProgress(count) ==
    {{}, {ProgressRow(MaxRollupModules + n, "u2", ModuleId(n)) : n \in 1..count}}

\* How the three queries of one fetchDashboardData end: at most one fails.
DashboardOutcomes ==
    {o \in [1..3 -> Outcomes] : Cardinality({i \in 1..3 : o[i] # "ok"}) <= 1}

\* Stores with up to MaxRollupModules modules, progress rows of u1 and of u2
\* and attempts of both.
InitDashboard ==
    /\ profiles = {ProfileRow("u1", "student"), ProfileRow("u2", "admin")}
    /\ \E count \in 0..MaxRollupModules :
          /\ modules = {ModuleRow(n) : n \in 1..count}
          /\ quizzes = {StoredQuiz(ModuleId(n), n, <<"x">>) : n \in 1..count}
          /\ \E own \in ProgressTables(count), others \in OthersProgress(count) :
                progress = own \cup others
          /\ quiz_attempts \in AttemptTables(count)
    /\ comments = {}
    /\ nextModuleId = MaxRollupModules + 1
    /\ nextQuizId = MaxRollupModules + 1
    /\ nextAttemptId = MaxAttemptIds + 1
    /\ nextProgressId = 2 * MaxRollupModules + 1
    /\ requester = "none"
    /\ toast = NoToast
    /\ nav = "none"
    /\ createView = CreateIdle(FALSE)
    /\ quizView = QuizMount("none", NoId)
    /\ loadView = NoLoad
    /\ NoAuth
    /\ NoPages

NextDashboard ==
    \E u \in Users, outcomes \in DashboardOutcomes,
       latest \in SUBSET Pick(quiz_attempts, {"id", "score", "quiz_id"}) :
       fetchDashboardData(u, outcomes, latest) /\ UNCHANGED besideLoad

SpecDashboard == InitDashboard /\ [][NextDashboard]_vars

\* The Dashboard of a user whose stored role is 'student' has fetched.
C22_StudentFetched ==
    /\ loadView.fetch = "fetchDashboardData"
    /\ \E p \in profiles : p.user_id = loadView.user /\ p.role = "student"

\* C22 (as claimed): on a student's Dashboard the progress and attempt rows
\* fetched are rows of that student only, completedModules never exceeds
\* totalModules, and progressPercentage lies within 0..100.
C22_StudentDashboardWithinBounds ==
    C22_StudentFetched =>
       LET data == loadView.data
           own(rows) == {r \in rows : r.user_id = loadView.user}
           pct == DashboardPercentage(data)
       IN /\ data.progress \subseteq Pick(own(progress), {"module_id", "completed"})
          /\ data.quizAttempts \subseteq Pick(own(quiz_attempts), {"id", "score", "quiz_id"})
          /\ DashboardCompleted(data) <= DashboardTotal(data)
          /\ pct.den > 0 /\ 0 <= pct.num /\ pct.num <= 100 * pct.den

(***************************************************************************)
(* AdminAnalytics with its fetchAnalyticsData runs in flight: a run's      *)
(* queries are answered by the backend in one step and the continuation    *)
(* after the last await (the setState calls) runs in a later one.          *)
(***************************************************************************)
\* A run that has been called and awaits its queries.
RunStarted == [pc |-> "querying", failed |-> FALSE, logged |-> FALSE, data |-> <<>>]

\* The useState cells of AdminAnalytics before any run has set them.
AnalyticsInitialCells ==
    [attemptsData |-> {}, students |-> {}, studentProgress |-> {},
     moduleStats |-> {}, loading |-> TRUE]

\* The cells of the mounted page: what the run that finished last has set.
AnalyticsCells ==
    IF \E i \in DOMAIN analyticsRuns : analyticsRuns[i].pc = "done"
       THEN loadView.data ELSE AnalyticsInitialCells

\* Each fetchAnalyticsData() call of an effect or a channel callback is a new
\* run.
TrackRuns ==
    IF adminView'.pending > adminView.pending
       THEN /\ Len(analyticsRuns) < MaxRuns
            /\ analyticsRuns' = Append(analyticsRuns, RunStarted)
       ELSE UNCHANGED analyticsRuns

\* The backend answers the five queries of run i from the rows it holds now.
analyticsQueries(i, outcomes) ==
    /\ adminView.page = "analytics"
    /\ analyticsRuns[i].pc = "querying"
    /\ analyticsRuns' =
          [analyticsRuns EXCEPT
              ![i] = [pc |-> "answered", failed |-> SomeFailed(outcomes),
                      logged |-> Threw(outcomes),
                      data |-> AnalyticsData(adminView.user, outcomes)]]
    /\ requester' = adminView.user
    /\ toast' = NoToast
    /\ nav' = "none"
    /\ UNCHANGED <<storeVars, loadView, adminView>>

\* Run i resumes after its last await: the four setState calls and
\* setLoading(false); a run whose query rejected only logs and clears loading.
analyticsSetState(i) ==
    LET run == analyticsRuns[i] IN
    /\ adminView.page = "analytics"
    /\ run.pc = "answered"
    /\ loadView' = Loaded("fetchAnalyticsData", adminView.user, run.failed, run.logged,
                          IF run.logged
                             THEN [AnalyticsCells EXCEPT !.loading = FALSE]
                             ELSE run.data)
    /\ analyticsRuns' = [analyticsRuns EXCEPT ![i].pc = "done"]
    /\ adminView' = [adminView EXCEPT !.pending = @ - 1]
    /\ requester' = "none"
    /\ toast' = NoToast
    /\ nav' = "none"
    /\ UNCHANGED storeVars

InitOverlap == InitAdmin

besideOverlap == <<createView, quizView, authVars, formView, moduleView, providerView>>

\* AdminAnalytics of one session; module deletes of other sessions.
NextOverlap ==
    \/ \E u \in Users, delivered \in BOOLEAN :
          adminMount("analytics", u, delivered) /\ TrackRuns /\ UNCHANGED besideOverlap
    \/ \E outcome \in Outcomes :
          adminProfileDelivered(outcome) /\ TrackRuns /\ UNCHANGED besideOverlap
    \/ adminUnmount /\ analyticsRuns' = <<>> /\ UNCHANGED besideOverlap
    \/ adminRealtime /\ TrackRuns /\ UNCHANGED besideOverlap
    \/ \E i \in DOMAIN analyticsRuns, outcomes \in AnalyticsOutcomes :
          analyticsQueries(i, outcomes) /\ UNCHANGED besideOverlap
    \/ \E i \in DOMAIN analyticsRuns :
          analyticsSetState(i) /\ UNCHANGED besideOverlap
    \/ \E u \in Users, fail \in BOOLEAN :
          handleDeleteModule(u, ModuleId(1), fail) /\ Notify
             /\ UNCHANGED <<besideOverlap, loadView, analyticsRuns>>

SpecOverlap == InitOverlap /\ [][NextOverlap]_vars

\* Every run started since the page mounted has finished, and the run that
\* started last computed its figures.
C23_AllFinished ==
    /\ adminView.page = "analytics"
    /\ analyticsRuns # <<>>
    /\ \A i \in DOMAIN analyticsRuns : analyticsRuns[i].pc = "done"
    /\ ~analyticsRuns[Len(analyticsRuns)].logged

\* C23 (as claimed): once all overlapping fetchAnalyticsData runs have
\* finished, the displayed students, studentProgress, moduleStats and
\* attemptsData are the ones computed by the run that started last.
C23_LastStartedRunWins ==
    C23_AllFinished =>
       LET last == analyticsRuns[Len(analyticsRuns)].data IN
       /\ loadView.data.students = last.students
       /\ loadView.data.studentProgress = last.studentProgress
       /\ loadView.data.moduleStats = last.moduleStats
       /\ loadView.data.attemptsData = last.attemptsData

(***************************************************************************)
(* AuthProvider: the auth state listener, getSession, fetchUserProfile and *)
(* signOut.  The setState calls of one callback are one render.            *)
(***************************************************************************)
\* A fetchUserProfile call for userId: deferred by setTimeout, or its query
\* sent under the session the client held then.
ProfileFetch(userId, pc, token) == [userId |-> userId, pc |-> pc, token |-> token]

\* The sequence without its i-th element.
Without(seq, i) == [k \in 1..(Len(seq) - 1) |-> IF k < i THEN seq[k] ELSE seq[k + 1]]

\* The onAuthStateChange callback for a session: setSession, setUser, then
\* the deferred fetchUserProfile, or setProfile(null) without a session.
ProviderCallback(view, s) ==
    [view EXCEPT !.session = s, !.user = s, !.loading = FALSE,
                 !.profile = IF s = "none" THEN "null" ELSE @,
                 !.fetches = IF s = "none" THEN @
                             ELSE Append(@, ProfileFetch(s, "deferred", "none"))]

\* A step of AuthProvider that sends no request to the tables.
ProviderStep(view, shown) ==
    /\ providerView' = view
    /\ requester' = "none"
    /\ toast' = shown
    /\ nav' = "none"
    /\ UNCHANGED <<storeVars, loadView>>

\* The listener is called with the session restored at start-up.
providerInitialSession ==
    LET v == providerView IN
    /\ ~v.initial
    /\ v.client # "none" => Len(v.fetches) < MaxFetches
    /\ ProviderStep(ProviderCallback([v EXCEPT !.initial = TRUE], v.client), NoToast)

\* getSession().then(...): setSession, setUser and fetchUserProfile at once;
\* the profile is not cleared without a session.
providerGetSession ==
    LET v == providerView IN
    /\ ~v.gotSession
    /\ v.client # "none" => Len(v.fetches) < MaxFetches
    /\ ProviderStep([v EXCEPT !.gotSession = TRUE, !.session = v.client,
                              !.user = v.client, !.loading = FALSE,
                              !.fetches = IF v.client = "none" THEN @
                                          ELSE Append(@, ProfileFetch(v.client, "sent",
                                                                      v.client))],
                    NoToast)

\* A sign-in succeeded: the client holds the session and calls the listener.
providerSignedIn(u) ==
    LET v == providerView IN
    /\ v.client = "none"
    /\ Len(v.fetches) < MaxFetches
    /\ ProviderStep(ProviderCallback([v EXCEPT !.client = u], u), NoToast)

\* signOut: the client drops the session and calls the listener, then
\* setUser(null), setSession(null), setProfile(null) and the toast.
providerSignOut ==
    LET v == providerView IN
    /\ v.user # "none"
    /\ ProviderStep(ProviderCallback([v EXCEPT !.client = "none"], "none"),
                    Plain("Signed Out"))

\* The timer of a deferred fetchUserProfile fires: the query is sent under
\* the session the client holds now.
providerTimer(i) ==
    LET v == providerView IN
    /\ v.fetches[i].pc = "deferred"
    /\ ProviderStep([v EXCEPT !.fetches[i].pc = "sent", !.fetches[i].token = v.client],
                    NoToast)

\* fetchUserProfile resumes: an error is logged, a row goes to setProfile.
providerProfileAnswered(i, outcome) ==
    LET v == providerView
        f == v.fetches[i]
        reply == Single(outcome, {p \in ProfilesSelect(f.token) : p.user_id = f.userId})
    IN
    /\ f.pc = "sent"
    /\ providerView' =
          [v EXCEPT !.fetches = Without(@, i),
                    !.profile = IF outcome = "throw" \/ reply.error THEN @
                                ELSE StoredRole(reply.data)]
    /\ requester' = f.token
    /\ toast' = NoToast
    /\ nav' = "none"
    /\ UNCHANGED <<storeVars, loadView>>

InitProvider ==
    /\ profiles = {ProfileRow("u1", "student"), ProfileRow("u2", "admin")}
    /\ modules = {}
    /\ quizzes = {}
    /\ quiz_attempts = {}
    /\ progress = {}
    /\ comments = {}
    /\ nextModuleId = 1
    /\ nextQuizId = 1
    /\ nextAttemptId = 1
    /\ nextProgressId = 1
    /\ requester = "none"
    /\ toast = NoToast
    /\ nav = "none"
    /\ createView = CreateIdle(FALSE)
    /\ quizView = QuizMount("none", NoId)
    /\ loadView = NoLoad
    /\ NoAuth
    /\ moduleView = [ModuleMount("none", "none", NoId) EXCEPT !.mounted = FALSE]
    /\ formView = FormClosed(NoSent)
    /\ adminView = AdminClosed(0)
    /\ analyticsRuns = <<>>
    /\ providerView \in {ProviderMount(client) : client \in Visitors}

besideProvider == <<createView, quizView, authVars, moduleView, formView, adminView,
                    analyticsRuns>>

NextProvider ==
    \/ providerInitialSession /\ UNCHANGED besideProvider
    \/ providerGetSession /\ UNCHANGED besideProvider
    \/ \E u \in Users : providerSignedIn(u) /\ UNCHANGED besideProvider
    \/ providerSignOut /\ UNCHANGED besideProvider
    \/ \E i \in DOMAIN providerView.fetches : providerTimer(i) /\ UNCHANGED besideProvider
    \/ \E i \in DOMAIN providerView.fetches, outcome \in Outcomes :
          providerProfileAnswered(i, outcome) /\ UNCHANGED besideProvider

SpecProvider == InitProvider /\ [][NextProvider]_vars

\* C24 (as claimed): in every state of AuthProvider user is null exactly when
\* session is null, and whenever user is null the profile is null too.
C24_NoProfileWithoutUser ==
    /\ (providerView.user = "none") <=> (providerView.session = "none")
    /\ providerView.user = "none" => providerView.profile = "null"

(***************************************************************************)
(* CreateModule opened under AuthProvider: the page mounts with the        *)
(* profile the provider holds at that moment.                              *)
(***************************************************************************)
\* The page leaves the screen.
createUnmount ==
    /\ formView.mounted
    /\ formView' = FormClosed(formView.sent)
    /\ requester' = "none"
    /\ toast' = NoToast
    /\ nav' = "none"
    /\ UNCHANGED <<storeVars, createView>>

besideGuard == <<quizView, authVars, moduleView, adminView, analyticsRuns>>

NextGuard ==
    \/ providerInitialSession /\ UNCHANGED <<besideGuard, createView, formView>>
    \/ providerGetSession /\ UNCHANGED <<besideGuard, createView, formView>>
    \/ \E u \in Users : providerSignedIn(u) /\ UNCHANGED <<besideGuard, createView, formView>>
    \/ providerSignOut /\ UNCHANGED <<besideGuard, createView, formView>>
    \/ \E i \in DOMAIN providerView.fetches :
          providerTimer(i) /\ UNCHANGED <<besideGuard, createView, formView>>
    \/ \E i \in DOMAIN providerView.fetches, outcome \in Outcomes :
          providerProfileAnswered(i, outcome)
             /\ UNCHANGED <<besideGuard, createView, formView>>
    \/ createMount(providerView.client, NoId, providerView.profile)
          /\ UNCHANGED <<besideGuard, loadView, providerView>>
    \/ createUnmount /\ UNCHANGED <<besideGuard, loadView, providerView>>

SpecGuard == InitProvider /\ [][NextGuard]_vars

\* C25 (as claimed): the mount effect of CreateModule never navigates a user
\* whose stored profile role is 'admin' to /dashboard, also when the page
\* mounts before AuthProvider has loaded the profile.
C25_AdminNeverRedirected ==
    [][(formView' # formView \/ nav' = "/dashboard") /\ providerView' = providerView
          /\ IsAdmin(providerView.client)
          => nav' # "/dashboard"]_vars

\* The questions stored for a module are the valid questions of a form, each
\* stored once with its blank options dropped.
C26_StoredAre(rows, valid) ==
    /\ Cardinality(rows) = Len(valid)
    /\ \A i \in 1..Len(valid) :
          \E q \in rows : /\ q.question = valid[i].question
                          /\ q.correct_answer = valid[i].correct_answer
                          /\ JsonParse(q.options) = SelectSeq(valid[i].options, NonBlank)

\* C26 (as claimed): after saveModule has completed successfully in edit
\* mode, the quizzes rows stored for the module are exactly the form's valid
\* questions; a question removed in the form is no longer stored, also when
\* the form is left with zero questions.
C26_StoredQuestionsAreTheForm ==
    [][toast' = Plain("Module Updated!") =>
          C26_StoredAre({q \in quizzes' : q.module_id = formView'.sent.id},
                        validQuizzes(createView.quizzes))]_vars

(***************************************************************************)
(* Properties of the question card (SpecQuiz).                             *)
(***************************************************************************)
\* The "Submit Quiz" button is rendered and enabled.
C27_SubmitEnabled ==
    /\ QuestionShown
    /\ quizView.currentQuestionIndex = Len(quizView.quizzes) - 1
    /\ quizView.showFeedback
    /\ ~quizView.submitting

\* Every question of the module has a non-empty recorded answer.
C27_AllAnswered ==
    \A i \in DOMAIN quizView.quizzes :
       LET answer == Get(quizView.answers, quizView.quizzes[i].id)
       IN answer # Undefined /\ Truthy(answer)

\* C27: submitQuiz is invoked only in states where the current question is
\* the last one, the feedback is shown and submitting is false, and in every
\* such state every question of the module has a non-empty recorded answer.
C27_SubmitOnlyWhenAllAnswered ==
    /\ [](C27_SubmitEnabled => C27_AllAnswered)
    /\ [][(quizView'.submitting /\ ~quizView.submitting) => C27_SubmitEnabled]_vars

\* C27 witness: Submit is enabled on the second of two questions, the first
\* one answered wrongly, after an earlier submission has been answered.
C27_Witness ==
    /\ C27_SubmitEnabled
    /\ Len(quizView.quizzes) = 2
    /\ quizView.response # "none"
    /\ Get(quizView.answers, quizView.quizzes[1].id) # quizView.quizzes[1].correct_answer

\* C28 (as claimed): once Check Answer has shown the feedback for a question,
\* the recorded answer for that question does not change before the quiz is
\* submitted or restarted.
C28_CheckedAnswerIsFinal ==
    [][\A id \in quizView.checked \cap quizView'.checked :
          Get(quizView'.answers, id) = Get(quizView.answers, id)]_vars

(***************************************************************************)
(* The quiz page over a store in which the attempts insert is accepted: a  *)
(* quizzes row carries the id the route names as the module (both columns  *)
(* are uuid; such a row comes from a request that sets the id itself, the  *)
(* pages never write one).  The completion screen and restartQuiz are      *)
(* reached only here.                                                      *)
(***************************************************************************)
\* The numbers of questions of the quiz that is completed and restarted; the
\* correct answer of each is "x", and both "x" and "y" can be selected.
CardLengths == {1, 2}

InitCard ==
    /\ profiles = {ProfileRow("u1", "student")}
    /\ modules = {[id |-> QuizId(1), title |-> <<"a">>, content |-> <<"c">>,
                   category |-> "Heat Transfer"]}
    /\ \E n \in CardLengths :
          quizzes = {StoredQuiz(QuizId(1), i, <<"x">>) : i \in 1..n}
    /\ quiz_attempts = {}
    /\ progress = {}
    /\ comments = {}
    /\ nextModuleId = 2
    /\ nextQuizId = MaxQuestions + 1
    /\ nextAttemptId = 1
    /\ nextProgressId = 1
    /\ requester = "none"
    /\ toast = NoToast
    /\ nav = "none"
    /\ createView = CreateIdle(FALSE)
    /\ quizView = QuizMount("u1", QuizId(1))
    /\ loadView = NoLoad
    /\ NoAuth
    /\ NoPages

NextCard ==
    \/ NextQuiz
    \/ restartQuiz /\ UNCHANGED besideQuiz

SpecCard == InitCard /\ [][NextCard]_vars

\* The questions are loaded and there is at least one.
C29_Loaded == ~quizView.loading /\ Len(quizView.quizzes) >= 1

\* The step is restartQuiz.
C29_Restarted == quizView.quizCompleted /\ ~quizView'.quizCompleted

\* C29: with n >= 1 questions loaded, 0 <= currentQuestionIndex <= n - 1
\* holds under every sequence of select, Check Answer, Next, Previous, submit
\* and restartQuiz; Next on the last and Previous on the first question
\* change nothing; restartQuiz empties answers, sets the index to 0,
\* showFeedback and quizCompleted to false and score to 0, and leaves quizzes
\* unchanged.
C29_IndexInRangeAndRestartResets ==
    /\ [](C29_Loaded =>
             /\ 0 <= quizView.currentQuestionIndex
             /\ quizView.currentQuestionIndex <= Len(quizView.quizzes) - 1)
    /\ [][/\ (C29_Loaded /\ quizView.currentQuestionIndex = Len(quizView.quizzes) - 1)
                => quizView'.currentQuestionIndex <= quizView.currentQuestionIndex
          /\ (C29_Loaded /\ quizView.currentQuestionIndex = 0)
                => quizView'.currentQuestionIndex >= 0
          /\ C29_Restarted =>
                /\ quizView'.answers = <<>>
                /\ quizView'.currentQuestionIndex = 0
                /\ ~quizView'.showFeedback
                /\ quizView'.score = 0
                /\ quizView'.quizzes = quizView.quizzes]_vars

\* C29 witness: a quiz of two questions was submitted from the second one with
\* a score above 0 and then restarted.
C29_Witness ==
    /\ quizView.response = "ok" /\ ~quizView.quizCompleted
    /\ Len(quizView.quizzes) = 2
    /\ quizView.answers = <<>> /\ quizView.currentQuestionIndex = 0
    /\ \E a \in quiz_attempts : a.score > 0

\* signIn has returned.
C30_Returned == signInView.pc = "done"

\* One of the invocation's signInWithPassword calls returned a session.
C30_SignedIn == signInView.firstError = "none" \/ signInView.retryError = "none"

\* C30: signIn returns {error: null} exactly when one of its
\* signInWithPassword calls succeeded; confirm-user is invoked at most once per
\* invocation and only after the first sign-in failed with 'Email not
\* confirmed'; when confirm-user or the sign-in after it fails, signIn returns
\* that error and shows a 'Sign In Failed' toast.
C30_SignInReturnsTheSessionOrTheError ==
    /\ signInView.confirmCalls <= 1
    /\ signInView.confirmCalls = 1 => signInView.firstError = "Email not confirmed"
    /\ C30_Returned =>
          /\ signInView.returned = "null" <=> C30_SignedIn
          /\ signInView.confirmResponse = "error" =>
                /\ signInView.returned \in
                       {"Failed to send a request to the Edge Function",
                        "Edge Function returned a non-2xx status code"}
                /\ signInView.retryError = "unset"
                /\ toast = Destructive("Sign In Failed")
          /\ signInView.retryError \notin {"unset", "none"} =>
                /\ signInView.returned = signInView.retryError
                /\ toast = Destructive("Sign In Failed")

\* C30 witness: confirm-user answered without error and the sign-in after it
\* failed.
C30_Witness ==
    /\ C30_Returned /\ signInView.confirmCalls = 1
    /\ signInView.confirmResponse = "ok"
    /\ signInView.retryError \notin {"unset", "none"}

====
